---- MODULE Spec2Model ----
(***************************************************************************)
(* A model of the episode-execution pipeline of game-ai-training:          *)
(*   ai/environment.py  GameEnvironment  (send_command, get_valid_actions, *)
(*                      is_action_valid, step)                             *)
(*   ai/trainer.py      TrainingManager  (train_episode)                   *)
(* The external engine is modelled by the replies it may give; every reply *)
(* is chosen nondeterministically from the shapes the protocol allows.     *)
(* Rewards are integers in milli-units (1.0 = 1000).                       *)
(***************************************************************************)
EXTENDS Integers, Sequences, FiniteSets, TLC

\* ----------------------------------------------------------------- bounds
\* Longest validActions list the engine sends in the get_valid_actions model.
MaxListLen == 3
\* Longest validActions list the engine sends while a step is retrying.
MaxOffered == 2
\* Most lines waiting unread on the engine's stdout.
MaxPipe == 2
\* Most send_command calls in one behaviour.
MaxCommands == 2
\* Largest step_count passed to step.
MaxStepCount == 2
\* Largest completion_delay_turns a step starts from.
MaxDelayTurns == 2
\* turn_limit is 100 * pieces_per_player and pieces_per_player grows to 5;
\* here an episode is TurnsPerPiece turns per piece, for up to MaxPieces
\* pieces, and MaxEpisodes episodes are run.
TurnsPerPiece == 2
MaxPieces == 2
MaxEpisodes == 2
\* invalid attempts are counted up to MaxCounted where the engine names new
\* ids without end
MaxCounted == 3

\* -------------------------------------------------------- program constants
\* GameEnvironment.action_space_size
action_space_size == 80
\* ids >= 70 are discards: the fallback band is range(70, 80)
DiscardLo == 70
DiscardHi == 79
\* _default_discards: max_discards = min(len(cards), 10)
MaxDiscards == 10

\* send_command: for attempt in range(20)
SendPolls == 20
\* Rewards in milli-units: INVALID_MOVE_PENALTY = -0.05, WIN_BONUS = 10.0,
\* FINAL_MOVE_BONUS = 5.0, COMPLETION_DELAY_BASE = -1.0,
\* COMPLETION_DELAY_CAP = -3.0
INVALID_MOVE_PENALTY == -50
WIN_BONUS == 10000
FINAL_MOVE_BONUS == 5000
COMPLETION_DELAY_BASE == -1000
COMPLETION_DELAY_CAP == -3000
\* COMPLETION_DELAY_GROWTH = 1.02 and POSITIVE_REWARD_DECAY = 1.01, times 1000
COMPLETION_DELAY_GROWTH == 1020
POSITIVE_REWARD_DECAY == 1010
\* next_penalty_check starts at 60 and the check recurs every 60 steps
PENALTY_CHECK_INTERVAL == 60
\* start_node_game polls for the ready line at most 50 times
StartPolls == 50
\* self.pending_penalties[pid] -= 60.0, in thousandths
TeamPenalty == 60000
EnemyHomeUnit == 5000     \* penalty = -5.0 * enemy_home, in thousandths
COMPLETION_BONUS == 5000  \* 5.0, in thousandths
KlTarget == 20            \* kl_target 0.02, in 1/1000
LrStart == 300            \* learning_rate 3e-4, in 1/1000000
LrFinal == 10             \* lr_final 1e-5
PpoClip == 1000           \* ppo_clip 0.1, in 1/10000
ClipMin == 500            \* max(bot.clip_eps * 0.9, 0.05)
ClipMax == 3000           \* min(bot.clip_eps * 1.1, 0.3)
\* HOME_ENTRY_REWARDS[0] = 0.6
HomeEntryReward0 == 600
\* the capture reward when the captured piece was not near home: 0.2
CaptureReward == 200

DiscardBand == DiscardLo..DiscardHi
Seats == 0..3

\* ------------------------------------------------------------------ state
VARIABLES
    \* GameEnvironment.game_state: the cached engine state (or None)
    game_state,
    \* GameEnvironment reward bookkeeping
    pending_penalties, reward_event_counts, reward_event_totals,
    reward_bonus_totals, completion_delay_turns, last_step_info,
    \* step: its position, arguments and locals
    pc, player_id, step_count, action, tried_actions, invalid_attempts,
    response, discards, reward, decay, done,
    \* history of the current step: the state it found, the ids attempted,
    \* the number of attempts, whether an id was attempted again, the ids
    \* offered, the failed attempts, whether every reply was an error object
    gs0, attempted, attempts, reattempted, candidates, failures, all_errors,
    \* what the event and bonus totals summed to when the step was called
    tallied0,
    \* get_valid_actions: the seat asked about, the engine's reply, the
    \* answers of is_action_valid per list position, the returned list
    gva_player, gva_resp, gva_ans, gva_result, gva_pc,
    \* send_command: the engine process, the lines waiting on its stdout, the
    \* commands written to its stdin, the position in send_command, the polls
    \* made, the returned object, the calls made so far
    node_process, stdout_buf, stdin_log, send_pc, polls, send_result, ncalls,
    \* history of the current send_command call: the first line it read and
    \* the line it read last (a sequence of length <= 2), whether it read a
    \* JSON object before that last line, the process state it found,
    \* whether its write failed; and the
    \* commands the engine has answered
    lines_read, json_skipped, node_at_call, write_failed, answered,
    \* train_episode: its position, the manager's pieces_per_player and
    \* turn_limit, the locals max_steps, step_count, done and episode_rewards,
    \* and game_state['currentPlayerIndex']
    ep_pc, pieces_per_player, turn_limit, max_steps, ep_step_count, ep_done,
    episode_rewards, currentPlayerIndex,
    \* history of the current episode: the episodes started so far, the
    \* turn_limit when this one started, the env.step calls it made, whether
    \* one was made after a step returned done, whether a response of this
    \* episode carried gameEnded = true, the rewards its steps returned per
    \* seat
    episodes, start_limit, steps_made, stepped_after_done, reported_ended,
    earned,
    \* the curriculum block of train_episode as the lanes of train run it:
    \* each lane's position and locals (the wins and length of the window it
    \* read, the level and the factor of _adjust_reward_multiplier), the
    \* manager's stage_games, recent_outcomes, level_reward_multiplier and
    \* training_stats['games_played'], and per environment pieces_per_player,
    \* turn_limit, heavy_reward and win_bonus
    lane_pc, lane_rate, lane_level, lane_factor, stage_games, recent_outcomes,
    level_reward_multiplier, games_played, env_pieces, env_turn_limit,
    env_heavy_reward, env_win_bonus,
    \* history of the curriculum: the rounds of episodes started, the
    \* pieces_per_player each lane saw when it tested the advancement
    \* condition, the episodes counted since pieces_per_player last rose, that
    \* number at each rise, the last write of _adjust_reward_multiplier, and
    \* per environment the episode and multiplier of the last
    \* _apply_reward_schedule
    rounds, lane_seen, since_raise, raise_games, last_adjust, applied,
    \* the Agents as the lanes of train use them: the seating self.bots (the
    \* bot at each seat), train_focus_idx, the bots with trainable = True, and
    \* per bot its memory and step_count; per lane its position in the step
    \* loop, current_player, current_bot, the seats whose states[] entry is
    \* set, the steps made and the transitions replay read from the memory
    bots, train_focus_idx, trainable, memory, bot_step_count,
    ag_pc, ag_player, ag_bot, ag_seen, ag_steps, ag_batch,
    \* history of the Agents: how often each transition was trained on, the
    \* last call of remember (the bot, the bot then seated at the focus seat),
    \* and the transitions remember has appended
    consumed, last_stored, stored,
    \* a checkpoint file and the Agent load_model is called on: the Agent
    \* that saves, the file's content, whether save_model wrote it, the
    \* loading Agent before and after the call, reset_stats, and what the
    \* call raised
    ck_pc, ck_src, ck_file, ck_saved, ck_agent, ck_before, ck_reset, ck_raised,
    \* close: its position, the signals it has sent to the process, whether
    \* its wait timed out, and the number of send_command calls and of
    \* commands written when it finished
    close_pc, signals, wait_expired, calls_at_close, stdin_at_close,
    \* reset and start_node_game: the fields of the environment reset touches
    \* besides the ones above (move_history, next_penalty_check,
    \* completion_delay_growth, no_progress_steps), the position of reset, the
    \* polls and the result of start_node_game, whether it read the ready line
    \* and whether it dropped a line before,
    \* whether the engine has printed it, the number of processes spawned, the
    \* process whose send_command last timed out without any output, and for
    \* the current reset: that number at its call, the process its command was
    \* written to, node_process at its call, whether it called
    \* start_node_game, the environment before it, what it returned and
    \* whether the reply carried success
    move_history, next_penalty_check, completion_delay_growth,
    no_progress_steps, rs_pc, start_polls, start_result, ready_read, start_dropped,
    ready_printed, proc_gen, timeout_gen, rs_timeout_gen, rs_cmd_gen,
    rs_node_at_call, rs_started, rs_before, rs_return, rs_success,
    \* game_state['winningTeam'] and the winningTeam of the reply reset read
    winningTeam, rs_reply,
    \* the number of calls of reset
    resets,
    \* step and the cached state: what the final move response carried besides
    \* what response holds (its winningTeam, the lastMove of its gameState, 0 for
    \* none, and whether it has stats), and whether game_state has the keys
    \* 'stats' and 'statsSummary'
    resp_extra, game_stats,
    \* the statistics of the Agents: self.bots as the seating of the episode
    \* (the Agent at each seat), and wins and games_played of every Agent
    seats, bot_wins, bot_games_played,
    \* the periodic team check: for every seat whether one of its pieces is in
    \* the home stretch in the cached state, and the penalty the seat owes by
    \* the rule of the check, kept beside pending_penalties
    pn_home, pn_owed,
    \* the step counter of train_episode and the calls of step made here
    pn_turn, pn_steps,
    \* the enemy-home-entry branch of one step: the acting seat, which pieces
    \* are in the home stretch in the cached state and in the state of the
    \* response, the penalty added to reward and the events counted
    eh_pc, eh_player, eh_before, eh_after, eh_penalty, eh_events,
    \* the adaptive control of one Agent: the position in train_episode, the
    \* Agent's clip_eps (in 1/10000), the lr of its optimizer (in 1/1000000),
    \* the KL replay last reported (in 1/1000, -1 for none),
    \* training_stats['games_played'] and the updates made
    ad_pc, clip_eps, lr, kl, ad_games, ad_updates,
    \* the Transitions of one episode: the position in the step loop,
    \* train_focus_idx, the number of act calls made (the n-th call observes
    \* state n and chooses action n), current_player, for every seat the act
    \* call whose state and action states[] and actions[] hold (0 for None),
    \* for every seat's Agent the act call that set last_log_prob and
    \* last_value, the Transitions stored and the steps of the focus seat
    tr_pc, tr_focus, tr_step, tr_player, tr_states, tr_last_act, tr_stored, tr_focus_steps,
    \* the completion bonus in one episode: whether the game has ended, the
    \* seat of the last step, the completed pieces of every seat in the cached
    \* state, how often COMPLETION_BONUS was credited to every seat, how often
    \* in the last step, and what the last step added to reward for it
    cb_pc, cb_player, cb_completed, cb_credits, cb_step_credits, cb_reward,
    \* TrainingManager.train: position, num_envs, index of the environment being
    \* started or closed, node_process of each environment, processes alive,
    \* episodes run, signals close sent to each process
    tn_pc, tn_num_envs, tn_idx, tn_node, tn_alive, tn_episode, tn_signals

envVars == <<game_state, pending_penalties, reward_event_counts,
            reward_event_totals, reward_bonus_totals, completion_delay_turns,
            last_step_info>>
stepVars == <<pc, player_id, step_count, action, tried_actions,
             invalid_attempts, response, discards, reward, decay, done,
             gs0, attempted, attempts, reattempted, candidates, failures,
             all_errors, tallied0>>
gvaVars == <<gva_player, gva_resp, gva_ans, gva_result, gva_pc>>
sendVars == <<node_process, stdout_buf, stdin_log, send_pc, polls, send_result,
              ncalls, lines_read, json_skipped, node_at_call, write_failed,
              answered>>
epVars == <<ep_pc, pieces_per_player, turn_limit, max_steps, ep_step_count,
           ep_done, episode_rewards, currentPlayerIndex, episodes, start_limit,
           steps_made, stepped_after_done, reported_ended, earned>>
curVars == <<lane_pc, lane_rate, lane_level, lane_factor, stage_games,
            recent_outcomes, level_reward_multiplier, games_played, env_pieces,
            env_turn_limit, env_heavy_reward, env_win_bonus, rounds, lane_seen,
            since_raise, raise_games, last_adjust, applied>>
botVars == <<bots, train_focus_idx, trainable, memory, bot_step_count, ag_pc,
            ag_player, ag_bot, ag_seen, ag_steps, ag_batch, consumed,
            last_stored, stored>>
ckVars == <<ck_pc, ck_src, ck_file, ck_saved, ck_agent, ck_before, ck_reset,
           ck_raised>>
closeVars == <<close_pc, signals, wait_expired, calls_at_close, stdin_at_close>>
rsVars == <<move_history, next_penalty_check, completion_delay_growth,
    no_progress_steps, rs_pc, start_polls, start_result, ready_read, start_dropped,
    ready_printed, proc_gen, timeout_gen, rs_timeout_gen, rs_cmd_gen,
    rs_node_at_call, rs_started, rs_before, rs_return, rs_success,
    winningTeam, rs_reply, resets>>
stVars == <<resp_extra, game_stats>>
acVars == <<seats, bot_wins, bot_games_played>>
pnVars == <<pn_home, pn_owed, pn_turn, pn_steps>>
ehVars == <<eh_pc, eh_player, eh_before, eh_after, eh_penalty, eh_events>>
adVars == <<ad_pc, clip_eps, lr, kl, ad_games, ad_updates>>
trVars == <<tr_pc, tr_focus, tr_step, tr_player, tr_states, tr_last_act, tr_stored, tr_focus_steps>>
cbVars == <<cb_pc, cb_player, cb_completed, cb_credits, cb_step_credits, cb_reward>>
tnVars == <<tn_pc, tn_num_envs, tn_idx, tn_node, tn_alive, tn_episode, tn_signals>>
managerVars == <<curVars, botVars, ckVars, closeVars, rsVars, stVars, acVars, pnVars, ehVars, adVars, trVars, cbVars, tnVars>>
vars == <<envVars, stepVars, gvaVars, sendVars, epVars, managerVars>>

\* ---------------------------------------------------------------- helpers
Min(a, b) == IF a < b THEN a ELSE b

Range(s) == {s[i] : i \in 1..Len(s)}

\* All sequences over S of length at most n.
SeqsUpTo(S, n) == UNION {[1..k -> S] : k \in 0..n}

\* The positions of s whose element satisfies Keep(i).
RECURSIVE FilterIdx(_, _, _)
FilterIdx(s, keep, i) ==
    IF i > Len(s) THEN <<>>
    ELSE IF i \in keep THEN <<s[i]>> \o FilterIdx(s, keep, i + 1)
         ELSE FilterIdx(s, keep, i + 1)

\* ------------------------------------------------------------- game state
\* The cached state: none = TRUE is Python's None. hands[p + 1] is
\* len(players[p]['cards']); Len(hands) is len(players).
NoneState == [none |-> TRUE, hands |-> <<>>, gameEnded |-> FALSE, ver |-> 0]

HandsChoices == {<<>>, <<0, 0, 0, 0>>, <<1, 0, 1, 0>>, <<2, 1, 0, 1>>}

CachedStates ==
    {NoneState} \cup
    {[none |-> FALSE, hands |-> h, gameEnded |-> e, ver |-> 0] :
        h \in HandsChoices, e \in BOOLEAN}

\* ------------------------------------------------------ get_valid_actions
\* _default_discards(player_id): discard ids derived from the cached hand.
DefaultDiscards(gs, pid) ==
    IF ~gs.none /\ 0 <= pid /\ pid < Len(gs.hands)
    THEN [i \in 1..Min(gs.hands[pid + 1], MaxDiscards) |-> DiscardLo + (i - 1)]
    ELSE <<>>

\* A fallback that returns every synthesized discard instead of the first.
WholeFallback(s) == s

\* [fallback[0]] if fallback else []
FirstOrEmpty(s) == IF Len(s) > 0 THEN <<s[1]>> ELSE <<>>

\* The filter of get_valid_actions: positions whose id is inside the action
\* space and for which is_action_valid answered True.
FilteredPositions(actions, ans) ==
    {i \in 1..Len(actions) :
        0 <= actions[i] /\ actions[i] < action_space_size /\ ans[i]}

\* Deduplicate while preserving the order of first occurrence.
RECURSIVE Dedup(_, _)
Dedup(s, seen) ==
    IF s = <<>> THEN <<>>
    ELSE IF Head(s) \in seen THEN Dedup(Tail(s), seen)
         ELSE <<Head(s)>> \o Dedup(Tail(s), seen \cup {Head(s)})

\* get_valid_actions(player_id) for an engine reply resp = [err, actions] and
\* the answers ans[i] of is_action_valid for the i-th listed id.
GetValidActions(gs, pid, resp, ans) ==
    IF resp.err THEN FirstOrEmpty(DefaultDiscards(gs, pid))
    ELSE LET actions  == resp.actions
             filtered == FilterIdx(actions, FilteredPositions(actions, ans), 1)
             discard_actions ==
                 FilterIdx(actions,
                           {i \in 1..Len(actions) : actions[i] >= DiscardLo}, 1)
         IN  IF filtered = <<>>
             THEN IF discard_actions # <<>> THEN <<discard_actions[1]>>
                  ELSE FirstOrEmpty(DefaultDiscards(gs, pid))
             ELSE Dedup(filtered, {})

\* Ids the engine may list: an id below 0, ordinary moves, a special move,
\* discards, and an id beyond the action space.
GvaIds == {-1, 1, 60, 70, 71, 80}

GvaResponses ==
    {[err |-> TRUE, actions |-> <<>>]} \cup
    {[err |-> FALSE, actions |-> a] : a \in SeqsUpTo(GvaIds, MaxListLen)}

GvaInit ==
    /\ gva_pc = "call"
    /\ gva_player \in Seats
    /\ gva_resp \in GvaResponses
    /\ gva_ans \in [1..Len(gva_resp.actions) -> BOOLEAN]
    /\ gva_result = <<>>

GvaIdle ==
    /\ gva_pc = "off"
    /\ gva_player = 0
    /\ gva_resp = [err |-> TRUE, actions |-> <<>>]
    /\ gva_ans = <<>>
    /\ gva_result = <<>>

GvaReturn ==
    /\ gva_pc = "call"
    /\ gva_result' = GetValidActions(game_state, gva_player, gva_resp, gva_ans)
    /\ gva_pc' = "returned"
    /\ UNCHANGED <<gva_player, gva_resp, gva_ans, envVars>>

\* ----------------------------------------------------------- send_command
\* A line on stdout: noise (does not start with "{"), bad (starts with "{"
\* and fails json.loads), json (parses; re is the command it answers).
NoiseLine == [kind |-> "noise", re |-> 0]
BadLine == [kind |-> "bad", re |-> 0]
JsonLine(k) == [kind |-> "json", re |-> k]

ErrorObject(msg) == [error |-> msg, re |-> 0]
ParsedObject(line) == [error |-> "", re |-> line.re]
NoResult == [error |-> "unset", re |-> 0]

SendInit ==
    /\ node_process \in {"none", "running"}
    /\ stdout_buf = <<>>
    /\ stdin_log = <<>>
    /\ send_pc = "idle"
    /\ polls = 0
    /\ send_result = NoResult
    /\ ncalls = 0
    /\ lines_read = <<>>
    /\ json_skipped = FALSE
    /\ node_at_call = "none"
    /\ write_failed = FALSE
    /\ answered = {}

SendIdle ==
    /\ node_process = "none"
    /\ stdout_buf = <<>>
    /\ stdin_log = <<>>
    /\ send_pc = "off"
    /\ polls = 0
    /\ send_result = NoResult
    /\ ncalls = 0
    /\ lines_read = <<>>
    /\ json_skipped = FALSE
    /\ node_at_call = "none"
    /\ write_failed = FALSE
    /\ answered = {}

\* send_command up to the write: the two early returns, then the write,
\* which either raises (caught by the outer except) or succeeds.
SendCommandCall ==
    /\ send_pc \in {"idle", "returned"}
    /\ ncalls < MaxCommands
    /\ ncalls' = ncalls + 1
    /\ lines_read' = <<>>
    /\ json_skipped' = FALSE
    /\ node_at_call' = node_process
    /\ polls' = 0
    /\ \/ /\ node_process = "none"
          /\ send_result' = ErrorObject("Game process not started")
          /\ send_pc' = "returned"
          /\ write_failed' = FALSE
          /\ UNCHANGED stdin_log
       \/ /\ node_process = "exited"
          /\ send_result' = ErrorObject("Process terminated")
          /\ send_pc' = "returned"
          /\ write_failed' = FALSE
          /\ UNCHANGED stdin_log
       \/ /\ node_process = "running"
          /\ send_result' = ErrorObject("Communication error")
          /\ send_pc' = "returned"
          /\ write_failed' = TRUE
          /\ UNCHANGED stdin_log
       \/ /\ node_process = "running"
          /\ stdin_log' = Append(stdin_log, ncalls + 1)
          /\ send_result' = NoResult
          /\ send_pc' = "polling"
          /\ write_failed' = FALSE
    /\ UNCHANGED <<node_process, stdout_buf, answered>>

\* A poll whose select or readline raised, with the error let through.
ReadErrorPropagates == "raised"

\* except: continue  (the poll loop swallows a failed select or readline)
AfterReadError == "polling"

\* One pass of the poll loop with nothing to parse: select timed out, or
\* readline returned '' at end of file.
PollNothing ==
    /\ send_pc = "polling"
    /\ polls < SendPolls
    /\ stdout_buf = <<>>
    /\ polls' = polls + 1
    /\ UNCHANGED <<node_process, stdout_buf, stdin_log, send_pc, send_result,
                   ncalls, lines_read, json_skipped, node_at_call,
                   write_failed, answered>>

\* One pass of the poll loop in which select or readline raised.
PollReadError ==
    /\ send_pc = "polling"
    /\ polls < SendPolls
    /\ polls' = polls + 1
    /\ send_pc' = AfterReadError
    /\ UNCHANGED <<node_process, stdout_buf, stdin_log, send_result,
                   ncalls, lines_read, json_skipped, node_at_call,
                   write_failed, answered>>

\* a test that takes every line starting with '{' for a JSON object
StartsWithBrace(line) == line.kind \in {"json", "bad"}

\* if line.startswith('{'): ... json.loads(line) succeeds
ParsesAsJson(line) == line.kind = "json"

\* One pass of the poll loop that reads a line: a JSON object is returned,
\* a line that is not JSON or does not parse is skipped.
PollLine ==
    /\ send_pc = "polling"
    /\ polls < SendPolls
    /\ stdout_buf # <<>>
    /\ LET line == Head(stdout_buf)
       IN  /\ stdout_buf' = Tail(stdout_buf)
           /\ lines_read' = IF lines_read = <<>> THEN <<line>>
                            ELSE <<lines_read[1], line>>
           /\ json_skipped' =
                (json_skipped \/ \E i \in 1..Len(lines_read) : lines_read[i].kind = "json")
           /\ polls' = polls + 1
           /\ IF ParsesAsJson(line)
              THEN /\ send_result' = ParsedObject(line)
                   /\ send_pc' = "returned"
              ELSE UNCHANGED <<send_result, send_pc>>
    /\ UNCHANGED <<node_process, stdin_log, ncalls, node_at_call,
                   write_failed, answered>>

\* The poll loop ran out: return {"error": "Timeout waiting for response"}.
PollExhausted ==
    /\ send_pc = "polling"
    /\ polls = SendPolls
    /\ send_result' = ErrorObject("Timeout waiting for response")
    /\ send_pc' = "returned"
    /\ UNCHANGED <<node_process, stdout_buf, stdin_log, polls, ncalls,
                   lines_read, json_skipped, node_at_call, write_failed,
                   answered>>

\* The engine prints a line: noise at any time, or its reply to a command
\* it has received and not yet answered.
EngineWrites ==
    /\ node_process = "running"
    /\ Len(stdout_buf) < MaxPipe
    /\ \/ /\ \E l \in {NoiseLine, BadLine} : stdout_buf' = Append(stdout_buf, l)
          /\ UNCHANGED answered
       \/ \E k \in Range(stdin_log) \ answered :
             /\ stdout_buf' = Append(stdout_buf, JsonLine(k))
             /\ answered' = answered \cup {k}
    /\ UNCHANGED <<node_process, stdin_log, send_pc, polls, send_result, ncalls,
                   lines_read, json_skipped, node_at_call, write_failed>>

\* The engine process ends.
EngineExits ==
    /\ node_process = "running"
    /\ node_process' = "exited"
    /\ UNCHANGED <<stdout_buf, stdin_log, send_pc, polls, send_result, ncalls,
                   lines_read, json_skipped, node_at_call, write_failed,
                   answered>>

\* -------------------------------------------------------------------- step
EventKeys == {"valid_move", "invalid_move", "home_entry", "penalty_exit",
              "capture", "enemy_home_entry", "game_win", "no_home_penalty",
              "avoid_home_penalty", "completion", "completion_delay", "timeout"}

ZeroEvents == [k \in EventKeys |-> 0]
ZeroBonus == [win_bonus |-> 0, final_move_bonus |-> 0]

\* A reply of the engine to makeMove / makeSpecialMove, as step reads it: an
\* in-band error object, or a move response. A move response that reports
\* success or gameEnded carries the gameState, as the protocol lays down.
UnsetResponse ==
    [kind |-> "unset", success |-> FALSE, hasState |-> FALSE, gameEnded |-> FALSE]
ErrorResponse ==
    [kind |-> "error", success |-> FALSE, hasState |-> FALSE, gameEnded |-> FALSE]
MoveReplies ==
    {ErrorResponse} \cup
    {r \in [kind : {"move"}, success : BOOLEAN, hasState : BOOLEAN,
            gameEnded : BOOLEAN] : (r.success \/ r.gameEnded) => r.hasState}

\* What the final response's gameState, captures and winningTeam show when
\* compared with the state before the step:
\*   entered  - a piece of the seat newly entered its home stretch (index 0)
\*   captured - captures names one piece of the seat, outside every entry zone
\*   progress - a piece of the seat moved inside the home stretch
\*   skip     - a piece of the seat stands in its entry zone (skip_decay)
\*   winner   - the seat is listed in winningTeam
Deltas == [entered : BOOLEAN, captured : BOOLEAN, progress : BOOLEAN,
           skip : BOOLEAN, winner : BOOLEAN]
NoDelta == [entered |-> FALSE, captured |-> FALSE, progress |-> FALSE,
            skip |-> FALSE, winner |-> FALSE]

\* The deltas a response can show: none without a gameState; no movement
\* when the move did not succeed; a winner only when the game has ended.
DeltasOf(r) ==
    IF ~r.hasState THEN {NoDelta}
    ELSE {d \in Deltas :
            /\ d.winner => r.gameEnded
            /\ d.entered => ~d.progress
            /\ ~r.success => (~d.entered /\ ~d.captured /\ ~d.progress)}

\* Ids the engine lists while a step retries, and ids a caller requests.
StepIds == {1, 70, 71}
RequestedIds == {1, 60, 70}
StepGvaResponses ==
    {[err |-> TRUE, actions |-> <<>>]} \cup
    {[err |-> FALSE, actions |-> a] : a \in SeqsUpTo(StepIds, MaxOffered)}

\* The hands of the state a move response carries.
NewHands == <<1, 0, 1, 0>>

\* team_idx = self.player_team_map.get(player_id, 0); the map is empty until
\* a reset succeeded and then pairs seats 0,2 and 1,3.
TeamIdx(gs, p) == IF gs.none THEN 0 ELSE p % 2

\* x ** n for a factor x in thousandths; the result in thousandths.
RECURSIVE PowMilli(_, _)
PowMilli(x, n) == IF n = 0 THEN 1000 ELSE (PowMilli(x, n - 1) * x) \div 1000

\* The completion-delay decay computed before the retry chain, with no
\* piece of the team completed (fraction = 0), floored at the cap.
DelayDecay(turns) ==
    LET d == -((-COMPLETION_DELAY_BASE * PowMilli(COMPLETION_DELAY_GROWTH, turns)) \div 1000)
    IN  IF d < COMPLETION_DELAY_CAP THEN COMPLETION_DELAY_CAP ELSE d

\* decay_penalty = 0.005 * (step_count ** 1.2), in milli-units
ValidMoveDecay(sc) ==
    CASE sc = 0 -> 0 [] sc = 1 -> 5 [] sc = 2 -> 11 [] sc = 3 -> 19
      [] sc = 4 -> 26 [] OTHER -> 34

\* 0.01 * (step_count ** 1.05), in milli-units
NoProgressPenalty(sc) ==
    CASE sc = 0 -> 0 [] sc = 1 -> 10 [] sc = 2 -> 21 [] sc = 3 -> 32
      [] sc = 4 -> 43 [] OTHER -> 54

\* An alt_actions that forgets the ids already tried.
AltActionsUnfiltered(valid_actions, tried) == valid_actions

\* alt_actions = [a for a in valid_actions if a not in tried_actions]
AltActions(valid_actions, tried) ==
    FilterIdx(valid_actions,
              {i \in 1..Len(valid_actions) : valid_actions[i] \notin tried}, 1)

\* d for d in range(70, 80) if d not in tried_actions
RECURSIVE BandFrom(_, _)
BandFrom(d, tried) ==
    IF d > DiscardHi THEN <<>>
    ELSE IF d \in tried THEN BandFrom(d + 1, tried)
         ELSE <<d>> \o BandFrom(d + 1, tried)

\* The discards the fallback loop walks when alt_actions is empty: the
\* untried listed discards, or else the untried ids of the band.
FallbackDiscards(valid_actions, tried) ==
    LET listed ==
            FilterIdx(valid_actions,
                      {i \in 1..Len(valid_actions) :
                          valid_actions[i] >= DiscardLo
                          /\ valid_actions[i] \notin tried}, 1)
    IN  IF listed # <<>> THEN listed ELSE BandFrom(DiscardLo, tried)

StepIdle ==
    /\ pc = "off"
    /\ player_id = 0
    /\ step_count = 0
    /\ action = 0
    /\ tried_actions = {}
    /\ invalid_attempts = 0
    /\ response = UnsetResponse
    /\ discards = <<>>
    /\ reward = 0
    /\ decay = 0
    /\ done = FALSE
    /\ gs0 = game_state
    /\ tallied0 = 0
    /\ attempted = {}
    /\ attempts = 0
    /\ reattempted = FALSE
    /\ candidates = {}
    /\ failures = 0
    /\ all_errors = TRUE

EnvFresh ==
    /\ pending_penalties = [p \in Seats |-> 0]
    /\ reward_event_counts = ZeroEvents
    /\ reward_event_totals = ZeroEvents
    /\ reward_bonus_totals = ZeroBonus
    /\ completion_delay_turns = <<0, 0>>
    /\ last_step_info = ZeroBonus

\* The signed sum of the event totals.
SumEvents(f) ==
    f["valid_move"] + f["invalid_move"] + f["home_entry"] + f["penalty_exit"]
    + f["capture"] + f["enemy_home_entry"] + f["game_win"]
    + f["no_home_penalty"] + f["avoid_home_penalty"] + f["completion"]
    + f["completion_delay"] + f["timeout"]

\* What the event totals and the bonus totals sum to.
Tallied ==
    SumEvents(reward_event_totals) + reward_bonus_totals.win_bonus
    + reward_bonus_totals.final_move_bonus

\* The arguments of step and the environment it is called in.
StepInit ==
    /\ pc = "call"
    /\ player_id \in {0, 1}
    /\ step_count \in {1, MaxStepCount}
    /\ action \in RequestedIds
    /\ tried_actions = {}
    /\ invalid_attempts = 0
    /\ response = UnsetResponse
    /\ discards = <<>>
    /\ reward = 0
    /\ decay = 0
    /\ done = FALSE
    /\ gs0 = game_state
    /\ tallied0 = Tallied
    /\ attempted = {}
    /\ attempts = 0
    /\ reattempted = FALSE
    /\ candidates = {action}
    /\ failures = 0
    /\ all_errors = TRUE

\* step up to the retry chain: apply and clear the seat's pending penalty,
\* compute the completion-delay decay.
StepBegin ==
    /\ pc = "call"
    /\ pc' = "loop"
    /\ last_step_info' = ZeroBonus
    /\ IF pending_penalties[player_id] # 0
       THEN /\ reward' = pending_penalties[player_id]
            /\ reward_event_counts' =
                 [reward_event_counts EXCEPT !["no_home_penalty"] = @ + 1]
            /\ reward_event_totals' =
                 [reward_event_totals EXCEPT
                    !["no_home_penalty"] = @ + pending_penalties[player_id]]
            /\ pending_penalties' = [pending_penalties EXCEPT ![player_id] = 0]
       ELSE /\ reward' = 0
            /\ UNCHANGED <<reward_event_counts, reward_event_totals,
                           pending_penalties>>
    /\ decay' = DelayDecay(completion_delay_turns[TeamIdx(game_state, player_id) + 1])
    /\ UNCHANGED <<game_state, reward_bonus_totals, completion_delay_turns,
                   player_id, step_count, action, tried_actions,
                   invalid_attempts, response, discards, done, gs0, tallied0, attempted,
                   attempts, reattempted, candidates, failures, all_errors>>

\* What get_valid_actions can return to step: for every reply of the engine
\* to getValidActions and every run of answers of is_action_valid, whether
\* the reply was an error object and the list returned.
GvaOutcomes(gs, p) ==
    UNION {{[err |-> resp.err, list |-> GetValidActions(gs, p, resp, ans)] :
               ans \in [1..Len(resp.actions) -> BOOLEAN]} :
           resp \in StepGvaResponses}

\* The part both retry branches share after a failed attempt of `action`:
\* ask get_valid_actions, pick the first untried id or start the fallback
\* discards (`next_pc` names the branch's discard loop).
Retry(tried, valid_actions, next_pc) ==
    LET alt_actions == AltActions(valid_actions, tried)
        discard_actions == FallbackDiscards(valid_actions, tried)
    IN  /\ candidates' = candidates \cup Range(valid_actions)
        /\ IF alt_actions = <<>>
           THEN /\ discards' = discard_actions
                /\ pc' = IF discard_actions = <<>> THEN "after" ELSE next_pc
                /\ UNCHANGED action
           ELSE /\ action' = alt_actions[1]
                /\ pc' = "loop"
                /\ UNCHANGED discards

\* One more attempt, of id a.
Attempt(a) ==
    /\ attempts' = attempts + 1
    /\ attempted' = attempted \cup {a}
    /\ reattempted' = (reattempted \/ a \in attempted)

\* while True: is_action_valid(action) is False (answered invalid, or an
\* error object): count it, mark the id tried, and retry.
ValidationRejected ==
    /\ pc = "loop"
    /\ \E v \in {"invalid", "error"}, g \in GvaOutcomes(game_state, player_id) :
         /\ invalid_attempts' = invalid_attempts + 1
         /\ tried_actions' = tried_actions \cup {action}
         /\ Attempt(action)
         /\ failures' = failures + 1
         /\ all_errors' = (all_errors /\ v = "error" /\ g.err)
         /\ Retry(tried_actions \cup {action}, g.list, "discardA")
    /\ UNCHANGED <<envVars, player_id, step_count, response,
                   reward, decay, done, gs0, tallied0>>

\* is_action_valid(action) is True and the move command succeeds.
MoveSucceeded ==
    /\ pc = "loop"
    /\ \E r \in {x \in MoveReplies : x.success} :
         /\ response' = r
         /\ tried_actions' = tried_actions \cup {action}
         /\ Attempt(action)
         /\ all_errors' = FALSE
         /\ pc' = "after"
    /\ UNCHANGED <<envVars, player_id, step_count, action, invalid_attempts,
                   discards, reward, decay, done, gs0, tallied0, candidates, failures>>

\* is_action_valid(action) is True and the move command is answered without
\* success: count it and retry.
MoveFailed ==
    /\ pc = "loop"
    /\ \E r \in {x \in MoveReplies : ~x.success},
          g \in GvaOutcomes(game_state, player_id) :
         /\ response' = r
         /\ tried_actions' = tried_actions \cup {action}
         /\ Attempt(action)
         /\ invalid_attempts' = invalid_attempts + 1
         /\ failures' = failures + 1
         /\ all_errors' = FALSE
         /\ Retry(tried_actions \cup {action}, g.list, "discardB")
    /\ UNCHANGED <<envVars, player_id, step_count, reward, decay, done, gs0, tallied0>>

\* The fallback loop after a rejected validation (lines 648-658): send the
\* next discard; leave on success or when the list is walked.
DiscardAfterRejection ==
    /\ pc = "discardA"
    /\ \E r \in MoveReplies :
         /\ response' = r
         /\ tried_actions' = tried_actions \cup {Head(discards)}
         /\ Attempt(Head(discards))
         /\ failures' = failures + (IF r.success THEN 0 ELSE 1)
         /\ all_errors' = (all_errors /\ r.kind = "error")
         /\ discards' = Tail(discards)
         /\ pc' = IF r.success \/ Tail(discards) = <<>> THEN "after" ELSE "discardA"
    /\ UNCHANGED <<envVars, player_id, step_count, action, invalid_attempts,
                   reward, decay, done, gs0, tallied0, candidates>>

\* The fallback loop after a failed move (lines 692-703): as above, and
\* every discard answered without success is counted.
DiscardAfterFailure ==
    /\ pc = "discardB"
    /\ \E r \in MoveReplies :
         /\ response' = r
         /\ tried_actions' = tried_actions \cup {Head(discards)}
         /\ Attempt(Head(discards))
         /\ failures' = failures + (IF r.success THEN 0 ELSE 1)
         /\ invalid_attempts' = invalid_attempts + (IF r.success THEN 0 ELSE 1)
         /\ all_errors' = (all_errors /\ r.kind = "error")
         /\ discards' = Tail(discards)
         /\ pc' = IF r.success \/ Tail(discards) = <<>> THEN "after" ELSE "discardB"
    /\ UNCHANGED <<envVars, player_id, step_count, action, reward, decay, done,
                   gs0, tallied0, candidates>>

Add(f, k, v) == [f EXCEPT ![k] = @ + v]

\* Scale down positive rewards as completion is delayed:
\* reward /= POSITIVE_REWARD_DECAY ** completion_delay_turns[team_idx]
ScalePositive(r, turns) ==
    IF r > 0 /\ r < 1000000
    THEN (r * 1000) \div PowMilli(POSITIVE_REWARD_DECAY, turns)
    ELSE r

\* an update that takes the carried state only from a successful move
UpdatedOnSuccess(gs, resp) ==
    IF resp.hasState /\ resp.success
    THEN [none |-> FALSE, hands |-> NewHands, gameEnded |-> resp.gameEnded,
          ver |-> gs.ver + 1]
    ELSE gs

\* if 'gameState' in response: the cached state is replaced by the state the
\* response carries, with gameEnded set to the response's flag; otherwise it
\* is kept.
UpdatedState(gs, resp) ==
    IF resp.hasState
    THEN [none |-> FALSE, hands |-> NewHands, gameEnded |-> resp.gameEnded,
          ver |-> gs.ver + 1]
    ELSE gs

\* teams_now = self.game_state.get('teams', []) raises when game_state is None
StateReadFails(gs) == gs.none

\* step after the retry chain: the reward, the event buckets, the cached
\* state, the completion-delay counters, the outcome bonus, the return.
StepFinish ==
    /\ pc = "after"
    /\ IF response.kind = "unset"
       THEN \* done = response.get(...) with response never assigned
            /\ pc' = "raised"
            /\ UNCHANGED <<envVars, reward, done>>
       ELSE \E d \in DeltasOf(response) :
            LET sc == step_count
                team == TeamIdx(game_state, player_id) + 1
                has == response.hasState
                ok == response.success
                is_done == response.gameEnded
                inv_pen == INVALID_MOVE_PENALTY * invalid_attempts
                home_reward_sum == IF d.entered THEN 2 * (HomeEntryReward0 \div 10) ELSE 0
                progress_made == d.entered \/ d.progress
                skip_decay == has /\ d.skip
                \* reward contributions, in the order of the code
                r_capture == IF has /\ d.captured THEN CaptureReward ELSE 0
                r_home == IF has /\ ok THEN home_reward_sum ELSE 0
                r_valid == IF has /\ ok /\ ~d.entered THEN -ValidMoveDecay(sc) ELSE 0
                r_noprog == IF has /\ ok /\ ~progress_made THEN -NoProgressPenalty(sc) ELSE 0
                r_decay == IF skip_decay THEN 0 ELSE decay
                total == reward + inv_pen + r_capture + r_home + r_valid
                         + r_noprog + r_decay
                counts1 == Add(reward_event_counts, "invalid_move", invalid_attempts)
                totals1 == Add(reward_event_totals, "invalid_move", inv_pen)
                counts2 == IF has /\ d.captured THEN Add(counts1, "capture", 1) ELSE counts1
                totals2 == Add(totals1, "home_entry", r_home)
                counts3 == IF has /\ ok
                           THEN IF d.entered THEN Add(counts2, "home_entry", 1)
                                ELSE Add(counts2, "valid_move", 1)
                           ELSE counts2
                totals3 == Add(totals2, "valid_move", r_valid)
                counts4 == IF skip_decay THEN counts3
                           ELSE Add(counts3, "completion_delay", 1)
                totals4 == Add(totals3, "completion_delay", r_decay)
                new_state == UpdatedState(game_state, response)
                turns1 == IF skip_decay THEN completion_delay_turns
                          ELSE [completion_delay_turns EXCEPT ![team] = @ + 1]
                won == is_done /\ d.winner
            IN  /\ game_state' = new_state
                /\ done' = is_done
                /\ UNCHANGED pending_penalties
                /\ IF StateReadFails(new_state)
                   THEN /\ pc' = "raised"
                        /\ reward_event_counts' = counts4
                        /\ reward_event_totals' = totals4
                        /\ UNCHANGED <<reward, reward_bonus_totals,
                                       completion_delay_turns, last_step_info>>
                   ELSE /\ pc' = "returned"
                        /\ completion_delay_turns' = turns1
                        /\ reward_event_counts' =
                             IF won THEN Add(counts4, "game_win", 1) ELSE counts4
                        /\ reward_event_totals' = totals4
                        /\ reward_bonus_totals' =
                             IF won
                             THEN [win_bonus |-> reward_bonus_totals.win_bonus + WIN_BONUS,
                                   final_move_bonus |->
                                     reward_bonus_totals.final_move_bonus + FINAL_MOVE_BONUS]
                             ELSE reward_bonus_totals
                        /\ last_step_info' =
                             IF won
                             THEN [win_bonus |-> WIN_BONUS,
                                   final_move_bonus |-> FINAL_MOVE_BONUS]
                             ELSE ZeroBonus
                        /\ reward' = ScalePositive(total, turns1[team])
    /\ UNCHANGED <<player_id, step_count, action, tried_actions,
                   invalid_attempts, response, discards, decay, gs0, tallied0, attempted,
                   attempts, reattempted, candidates, failures, all_errors>>

\* ---------------------------------------------------------- train_episode
\* TIMEOUT_PENALTY = -WIN_BONUS / 12
TIMEOUT_PENALTY == -(WIN_BONUS \div 12)

NoRewards == <<0, 0, 0, 0>>

\* No episode is being run.
EpIdle ==
    /\ ep_pc = "off"
    /\ pieces_per_player = 1
    /\ turn_limit = TurnsPerPiece
    /\ max_steps = 0
    /\ ep_step_count = 0
    /\ ep_done = FALSE
    /\ episode_rewards = NoRewards
    /\ currentPlayerIndex = 0
    /\ episodes = 0
    /\ start_limit = 0
    /\ steps_made = 0
    /\ stepped_after_done = FALSE
    /\ reported_ended = FALSE
    /\ earned = NoRewards

\* TrainingManager.__init__: pieces_per_player = 1 and the turn limit that
\* goes with it; no episode run yet.
EpInit ==
    /\ ep_pc = "idle"
    /\ pieces_per_player = 1
    /\ turn_limit = TurnsPerPiece * pieces_per_player
    /\ max_steps = 0
    /\ ep_step_count = 0
    /\ ep_done = FALSE
    /\ episode_rewards = NoRewards
    /\ currentPlayerIndex = 0
    /\ episodes = 0
    /\ start_limit = 0
    /\ steps_made = 0
    /\ stepped_after_done = FALSE
    /\ reported_ended = FALSE
    /\ earned = NoRewards

\* The state a successful reset caches: the engine's fresh state with
\* gameEnded forced to False.
ResetState == [none |-> FALSE, hands |-> NewHands, gameEnded |-> FALSE, ver |-> 0]

\* train_episode is called: up to env.reset.
TrainEpisodeStart ==
    /\ ep_pc \in {"idle", "finished"}
    /\ episodes < MaxEpisodes
    /\ ep_pc' = "reset"
    /\ episodes' = episodes + 1
    /\ start_limit' = turn_limit
    /\ steps_made' = 0
    /\ stepped_after_done' = FALSE
    /\ reported_ended' = FALSE
    /\ UNCHANGED <<envVars, stepVars, gvaVars, sendVars, pieces_per_player,
                   turn_limit, max_steps, ep_step_count, ep_done,
                   episode_rewards, currentPlayerIndex, earned>>

\* env.reset(bot_names), env.reset_reward_events() and the locals set before
\* the loop.  reset starts the engine when it is not running and gives up
\* when that fails; a reset command answered with success replaces the
\* cached state, any other answer leaves it as it was.
ResetForEpisode ==
    /\ ep_pc = "reset"
    /\ \E started \in BOOLEAN, ok \in BOOLEAN, first \in {0, 1} :
         LET running == node_process = "running" \/ started
             success == running /\ ok
         IN  /\ node_process' = IF running THEN "running" ELSE node_process
             /\ game_state' = IF success THEN ResetState ELSE game_state
             /\ currentPlayerIndex' = IF success THEN first ELSE currentPlayerIndex
    /\ pending_penalties' = [p \in Seats |-> 0]
    /\ reward_event_counts' = ZeroEvents
    /\ reward_event_totals' = ZeroEvents
    /\ reward_bonus_totals' = ZeroBonus
    /\ completion_delay_turns' = <<0, 0>>
    /\ last_step_info' = ZeroBonus
    /\ episode_rewards' = NoRewards
    /\ earned' = NoRewards
    /\ ep_step_count' = 0
    /\ ep_done' = FALSE
    /\ max_steps' = turn_limit
    /\ ep_pc' = "loop"
    /\ UNCHANGED <<stepVars, gvaVars, stdout_buf, stdin_log, send_pc, polls,
                   send_result, ncalls, lines_read, json_skipped, node_at_call,
                   write_failed, answered, pieces_per_player, turn_limit,
                   episodes, start_limit, steps_made, stepped_after_done,
                   reported_ended>>

\* A loop that runs one turn too many.
LoopGuardInclusive(sc, limit) == sc <= limit

\* while step_count < max_steps
LoopGuard(sc, limit) == sc < limit

\* The head of the loop: leave it at the limit; read currentPlayerIndex from
\* the cached state (AttributeError when there is none); ask for the seat's
\* valid actions and break when there are none.
LoopHead ==
    /\ ep_pc = "loop"
    /\ IF ~LoopGuard(ep_step_count, max_steps)
       THEN ep_pc' = "ended"
       ELSE IF game_state.none
            THEN ep_pc' = "raised"
            ELSE \E g \in GvaOutcomes(game_state, currentPlayerIndex) :
                   /\ node_process # "running" => g.err
                   /\ ep_pc' = IF g.list = <<>> THEN "ended" ELSE "acting"
    /\ UNCHANGED <<envVars, stepVars, gvaVars, sendVars, pieces_per_player,
                   turn_limit, max_steps, ep_step_count, ep_done,
                   episode_rewards, currentPlayerIndex, episodes, start_limit,
                   steps_made, stepped_after_done, reported_ended, earned>>

\* What one step can return as reward + bonus, in milli-units.
StepRewards == {INVALID_MOVE_PENALTY, 0}

\* The rest of the loop body: env.step is called and returns; the episode
\* keeps its reward and its done flag, counts the turn and breaks on done.
\* The step is summarised by the last response of its retry chain: an error
\* object when the engine is not running, any reply otherwise.  The cached
\* state and done follow that response as in step; of the tallies step
\* keeps only the timeout bucket matters here, and step never writes it.
EnvStepCall ==
    /\ ep_pc = "acting"
    /\ \E r \in MoveReplies, rw \in StepRewards, nxt \in {0, 1} :
         /\ node_process # "running" => r = ErrorResponse
         /\ game_state' = UpdatedState(game_state, r)
         /\ currentPlayerIndex' = IF r.hasState THEN nxt ELSE currentPlayerIndex
         /\ ep_done' = r.gameEnded
         /\ reported_ended' = (reported_ended \/ r.gameEnded)
         /\ episode_rewards' =
              [episode_rewards EXCEPT ![currentPlayerIndex + 1] = @ + rw]
         /\ earned' = [earned EXCEPT ![currentPlayerIndex + 1] = @ + rw]
         /\ ep_pc' = IF r.gameEnded THEN "ended" ELSE "loop"
    /\ ep_step_count' = ep_step_count + 1
    /\ steps_made' = steps_made + 1
    /\ stepped_after_done' = (stepped_after_done \/ ep_done)
    /\ UNCHANGED <<pending_penalties, reward_event_counts, reward_event_totals,
                   reward_bonus_totals, completion_delay_turns, last_step_info,
                   stepVars, gvaVars, sendVars, pieces_per_player, turn_limit,
                   max_steps, episodes, start_limit>>

\* After the loop: the timeout penalty when the cached state does not say
\* gameEnded, then the statistics and the curriculum, which may add a piece
\* and raise turn_limit for the episodes to come.
EpisodeEnd ==
    /\ ep_pc = "ended"
    /\ IF game_state.none
       THEN /\ ep_pc' = "raised"
            /\ UNCHANGED <<episode_rewards, reward_event_counts,
                           reward_event_totals, pieces_per_player, turn_limit>>
       ELSE /\ ep_pc' = "finished"
            /\ IF ~game_state.gameEnded
               THEN /\ episode_rewards' =
                         [i \in 1..4 |-> episode_rewards[i] + TIMEOUT_PENALTY]
                    /\ reward_event_counts' = Add(reward_event_counts, "timeout", 1)
                    /\ reward_event_totals' =
                         Add(reward_event_totals, "timeout", TIMEOUT_PENALTY * 4)
               ELSE UNCHANGED <<episode_rewards, reward_event_counts,
                                reward_event_totals>>
            /\ \E harder \in BOOLEAN :
                 IF harder /\ pieces_per_player < MaxPieces
                 THEN /\ pieces_per_player' = pieces_per_player + 1
                      /\ turn_limit' = TurnsPerPiece * (pieces_per_player + 1)
                 ELSE UNCHANGED <<pieces_per_player, turn_limit>>
    /\ UNCHANGED <<game_state, pending_penalties, reward_bonus_totals,
                   completion_delay_turns, last_step_info, stepVars, gvaVars,
                   sendVars, max_steps, ep_step_count, ep_done,
                   currentPlayerIndex, episodes, start_limit, steps_made,
                   stepped_after_done, reported_ended, earned>>

\* The engine process exits while episodes are run.
EngineExitsInEpisode ==
    /\ ep_pc # "raised"
    /\ EngineExits
    /\ UNCHANGED <<envVars, stepVars, gvaVars, epVars>>

\* ---- the variables of the manager's curriculum when no lane runs
NoAdjust == [level |-> 0, read |-> 0, wins |-> 0, n |-> 0,
             before |-> <<>>, after |-> <<>>]

CurIdle ==
    /\ lane_pc = <<>>
    /\ lane_rate = <<>>
    /\ lane_level = <<>>
    /\ lane_factor = <<>>
    /\ stage_games = 0
    /\ recent_outcomes = <<>>
    /\ level_reward_multiplier = <<>>
    /\ games_played = 0
    /\ env_pieces = <<>>
    /\ env_turn_limit = <<>>
    /\ env_heavy_reward = <<>>
    /\ env_win_bonus = <<>>
    /\ rounds = 0
    /\ lane_seen = <<>>
    /\ since_raise = 0
    /\ raise_games = <<>>
    /\ last_adjust = NoAdjust
    /\ applied = <<>>

\* ---- the variables of the Agents when no lane uses them
NotStored == [called |-> FALSE, bot |-> 0, focus_bot |-> 0]

BotIdle ==
    /\ bots = <<>>
    /\ train_focus_idx = 0
    /\ trainable = {}
    /\ memory = <<>>
    /\ bot_step_count = <<>>
    /\ ag_pc = <<>>
    /\ ag_player = <<>>
    /\ ag_bot = <<>>
    /\ ag_seen = <<>>
    /\ ag_steps = <<>>
    /\ ag_batch = <<>>
    /\ consumed = <<>>
    /\ last_stored = NotStored
    /\ stored = {}

\* ---- the checkpoint variables when no checkpoint is written or loaded
NoAgent == [type |-> "none", weights |-> 0, optimizer |-> 0, wins |-> 0,
            games_played |-> 0, total_reward |-> 0]

CkIdle ==
    /\ ck_pc = "off"
    /\ ck_src = NoAgent
    /\ ck_file = <<>>
    /\ ck_saved = FALSE
    /\ ck_agent = NoAgent
    /\ ck_before = NoAgent
    /\ ck_reset = FALSE
    /\ ck_raised = "none"

\* ---- the variables of close when close is not part of the run
CloseIdle ==
    /\ close_pc = "off"
    /\ signals = <<>>
    /\ wait_expired = FALSE
    /\ calls_at_close = 0
    /\ stdin_at_close = 0

\* ---- the fields of reset when reset is not part of the run
FreshNoProgress == [p \in Seats |-> [general |-> 0, since_two |-> 0]]
FreshGrowth == <<COMPLETION_DELAY_GROWTH, COMPLETION_DELAY_GROWTH>>

RsIdle ==
    /\ move_history = <<>>
    /\ next_penalty_check = PENALTY_CHECK_INTERVAL
    /\ completion_delay_growth = FreshGrowth
    /\ no_progress_steps = FreshNoProgress
    /\ rs_pc = "off"
    /\ start_polls = 0
    /\ start_result = "unset"
    /\ ready_read = FALSE
    /\ start_dropped = FALSE
    /\ ready_printed = FALSE
    /\ proc_gen = 0
    /\ timeout_gen = 0
    /\ rs_timeout_gen = 0
    /\ rs_cmd_gen = 0
    /\ rs_node_at_call = "none"
    /\ rs_started = FALSE
    /\ rs_before = <<>>
    /\ rs_return = "unset"
    /\ rs_success = FALSE
    /\ winningTeam = "none"
    /\ rs_reply = "none"
    /\ resets = 0

\* reset and start_node_game not part of the run
RsCallOff ==
    /\ rs_pc = "off"
    /\ start_polls = 0
    /\ start_result = "unset"
    /\ ready_read = FALSE
    /\ start_dropped = FALSE
    /\ ready_printed = FALSE
    /\ proc_gen = 0
    /\ timeout_gen = 0
    /\ rs_timeout_gen = 0
    /\ rs_cmd_gen = 0
    /\ rs_node_at_call = "none"
    /\ rs_started = FALSE
    /\ rs_before = <<>>
    /\ rs_return = "unset"
    /\ rs_success = FALSE
    /\ rs_reply = "none"
    /\ resets = 0

\* a response of which nothing more is known
NoExtra == [winners |-> "none", lastMove |-> 0, stats |-> FALSE]

StIdle ==
    /\ resp_extra = NoExtra
    /\ game_stats = "absent"

AcIdle ==
    /\ seats = <<>>
    /\ bot_wins = <<>>
    /\ bot_games_played = <<>>

PnIdle ==
    /\ pn_home = <<>>
    /\ pn_owed = <<>>
    /\ pn_turn = 0
    /\ pn_steps = 0

EhIdle ==
    /\ eh_pc = "off"
    /\ eh_player = 0
    /\ eh_before = <<>>
    /\ eh_after = <<>>
    /\ eh_penalty = 0
    /\ eh_events = 0

AdIdle ==
    /\ ad_pc = "off"
    /\ clip_eps = 0
    /\ lr = 0
    /\ kl = -1
    /\ ad_games = 0
    /\ ad_updates = 0

TrIdle ==
    /\ tr_pc = "off"
    /\ tr_focus = 0
    /\ tr_step = 0
    /\ tr_player = 0
    /\ tr_states = <<>>
    /\ tr_last_act = <<>>
    /\ tr_stored = <<>>
    /\ tr_focus_steps = 0

CbIdle ==
    /\ cb_pc = "off"
    /\ cb_player = 0
    /\ cb_completed = <<>>
    /\ cb_credits = <<>>
    /\ cb_step_credits = 0
    /\ cb_reward = 0

TnIdle ==
    /\ tn_pc = "off"
    /\ tn_num_envs = 0
    /\ tn_idx = 0
    /\ tn_node = <<>>
    /\ tn_alive = {}
    /\ tn_episode = 0
    /\ tn_signals = <<>>

ManagerIdle == CurIdle /\ BotIdle /\ CkIdle /\ CloseIdle /\ RsIdle /\ StIdle /\ AcIdle /\ PnIdle /\ EhIdle /\ AdIdle /\ TrIdle /\ CbIdle /\ TnIdle

InitEpisode ==
    /\ game_state = NoneState
    /\ EnvFresh
    /\ StepIdle
    /\ GvaIdle
    /\ SendIdle
    /\ EpInit
    /\ ManagerIdle
NextEpisode ==
    \/ TrainEpisodeStart /\ UNCHANGED managerVars
    \/ ResetForEpisode /\ UNCHANGED managerVars
    \/ LoopHead /\ UNCHANGED managerVars
    \/ EnvStepCall /\ UNCHANGED managerVars
    \/ EpisodeEnd /\ UNCHANGED managerVars
    \/ EngineExitsInEpisode /\ UNCHANGED managerVars
SpecEpisode == InitEpisode /\ [][NextEpisode]_vars

\* C9 (as claimed): an episode whose loop reached the limit without a
\* response carrying gameEnded = true has the timeout penalty in every
\* seat's reward once and one timeout event; an episode in which a response
\* carried gameEnded = true has no timeout penalty.
C9_TimeoutPenaltyOnce ==
    ep_pc = "finished" =>
        /\ (ep_step_count >= max_steps /\ ~reported_ended) =>
              /\ episode_rewards = [i \in 1..4 |-> earned[i] + TIMEOUT_PENALTY]
              /\ reward_event_counts["timeout"] = 1
        /\ reported_ended =>
              /\ episode_rewards = earned
              /\ reward_event_counts["timeout"] = 0

\* C10: an episode makes at most as many env.step calls as turn_limit was
\* when it started, and none after a step returned done.
C10_TurnLimitBoundsEpisode ==
    /\ steps_made <= start_limit
    /\ ~stepped_after_done
    /\ ep_pc \in {"loop", "acting", "ended", "finished"} => max_steps = start_limit

C10_Witness ==
    /\ ep_pc = "finished"
    /\ steps_made = start_limit
    /\ start_limit > TurnsPerPiece
    /\ turn_limit = start_limit
    /\ ~ep_done

\* ---- get_valid_actions alone
InitGva ==
    /\ game_state \in {s \in CachedStates : ~s.gameEnded}
    /\ EnvFresh
    /\ StepIdle
    /\ GvaInit
    /\ SendIdle
    /\ EpIdle
    /\ ManagerIdle
NextGva == GvaReturn /\ UNCHANGED <<stepVars, sendVars, epVars, managerVars>>
SpecGva == InitGva /\ [][NextGva]_vars

\* ---- properties of get_valid_actions (SpecGva)
NoDuplicates(s) == \A i, j \in 1..Len(s) : s[i] = s[j] => i = j

\* Position i of the engine's list passed the range check and validation.
Accepted(i) ==
    /\ ~gva_resp.err
    /\ gva_resp.actions[i] \in 0..(action_space_size - 1)
    /\ gva_ans[i]

AcceptedPositions == {i \in 1..Len(gva_resp.actions) : Accepted(i)}

FirstAccepted(id) ==
    CHOOSE i \in AcceptedPositions :
        /\ gva_resp.actions[i] = id
        /\ \A k \in AcceptedPositions : gva_resp.actions[k] = id => i <= k

\* The returned list is the accepted ids, each once, by first occurrence.
IsAcceptedInOrder(r) ==
    /\ NoDuplicates(r)
    /\ Range(r) = {gva_resp.actions[i] : i \in AcceptedPositions}
    /\ \A j, k \in 1..Len(r) : j < k => FirstAccepted(r[j]) < FirstAccepted(r[k])

\* The seat holds at least one card in the cached state.
SeatHoldsCard ==
    /\ ~game_state.none
    /\ gva_player < Len(game_state.hands)
    /\ game_state.hands[gva_player + 1] >= 1

HandFallback == IF SeatHoldsCard THEN <<DiscardLo>> ELSE <<>>

ListedDiscardPositions ==
    {i \in 1..Len(gva_resp.actions) : gva_resp.actions[i] >= DiscardLo}

\* C6 (as claimed): every returned list has no duplicates, only ids inside
\* 0..79, only ids that passed live validation, in first-occurrence order.
C6_Original ==
    gva_pc = "returned" =>
        /\ NoDuplicates(gva_result)
        /\ \A k \in 1..Len(gva_result) :
              /\ gva_result[k] \in 0..(action_space_size - 1)
              /\ \E i \in AcceptedPositions : gva_resp.actions[i] = gva_result[k]

\* What get_valid_actions does ensure: a returned list never holds
\* duplicates; when at least one listed id is inside 0..79 and passes
\* is_action_valid the list is exactly the accepted ids by first occurrence;
\* otherwise it is the fallback: at most one id, at or above 70, that did not
\* pass validation.
C6_FilteredOrFallback ==
    gva_pc = "returned" =>
        /\ NoDuplicates(gva_result)
        /\ AcceptedPositions # {} => IsAcceptedInOrder(gva_result)
        /\ AcceptedPositions = {} =>
              /\ Len(gva_result) <= 1
              /\ \A k \in 1..Len(gva_result) : gva_result[k] >= DiscardLo

\* C7: the fallback is at most one discard: [70] or [] by the cached hand on
\* an engine error; the first listed id >= 70, else the same hand fallback,
\* when the list is not an error but nothing passes the filter.
C7_FallbackDiscard ==
    gva_pc = "returned" =>
        /\ gva_resp.err => gva_result = HandFallback
        /\ (~gva_resp.err /\ AcceptedPositions = {}) =>
              IF ListedDiscardPositions # {}
              THEN gva_result =
                   <<gva_resp.actions[CHOOSE i \in ListedDiscardPositions :
                        \A k \in ListedDiscardPositions : i <= k]>>
              ELSE gva_result = HandFallback

C7_Witness ==
    /\ gva_pc = "returned"
    /\ gva_resp.err
    /\ game_state.hands = <<2, 1, 0, 1>>
    /\ gva_player = 0
    /\ gva_result = <<DiscardLo>>

\* ---- one call of step
StepStates ==
    {NoneState, [none |-> FALSE, hands |-> NewHands, gameEnded |-> FALSE, ver |-> 0]}

\* The completion-delay penalties of k turns in a row without a completion.
RECURSIVE SumDecay(_)
SumDecay(k) == IF k = 0 THEN 0 ELSE DelayDecay(k - 1) + SumDecay(k - 1)

\* The event counts and totals after reset_reward_events and k calls
\* step(action, seat) of team 0 (step_count left at its default 0), each a
\* successful move that made no progress: a valid_move event of amount 0
\* and a completion_delay event per call.
PriorCounts(k) ==
    [ZeroEvents EXCEPT !["valid_move"] = k, !["completion_delay"] = k]
PriorTotals(k) ==
    [ZeroEvents EXCEPT !["completion_delay"] = SumDecay(k)]

\* Before the first successful reset the environment is as __init__ left
\* it and holds no state.  After a reset, team 0 has made no call yet or
\* MaxDelayTurns calls as above.
Init ==
    /\ game_state \in StepStates
    /\ pending_penalties = [p \in Seats |-> 0]
    /\ completion_delay_turns \in
         {<<k, 0>> : k \in IF game_state.none THEN {0} ELSE {0, MaxDelayTurns}}
    /\ reward_event_counts = PriorCounts(completion_delay_turns[1])
    /\ reward_event_totals = PriorTotals(completion_delay_turns[1])
    /\ reward_bonus_totals = ZeroBonus
    /\ last_step_info = ZeroBonus
    /\ StepInit
    /\ GvaIdle
    /\ SendIdle
    /\ EpIdle
    /\ ManagerIdle
Next ==
    \/ StepBegin /\ UNCHANGED <<gvaVars, sendVars, epVars, managerVars>>
    \/ ValidationRejected /\ UNCHANGED <<gvaVars, sendVars, epVars, managerVars>>
    \/ MoveSucceeded /\ UNCHANGED <<gvaVars, sendVars, epVars, managerVars>>
    \/ MoveFailed /\ UNCHANGED <<gvaVars, sendVars, epVars, managerVars>>
    \/ DiscardAfterRejection /\ UNCHANGED <<gvaVars, sendVars, epVars, managerVars>>
    \/ DiscardAfterFailure /\ UNCHANGED <<gvaVars, sendVars, epVars, managerVars>>
    \/ StepFinish /\ UNCHANGED <<gvaVars, sendVars, epVars, managerVars>>
Spec == Init /\ [][Next]_vars
StepEnded == pc \in {"returned", "raised"}
DiscardBandSize == DiscardHi - DiscardLo + 1

\* The bound of C1, for engines that name ids of StepIds only: the attempts
\* of one step never exceed the number of distinct ids offered (the requested
\* id and every id get_valid_actions returned) plus the 10 ids of the discard
\* band; while the chain is about to try an id, fewer ids were attempted than
\* offered.
AttemptsBounded ==
    /\ attempts <= Cardinality(candidates) + DiscardBandSize
    /\ pc = "loop" => attempts < Cardinality(candidates)

\* ---- the retry chain against an engine that keeps naming new ids
\* get_valid_actions hands on the first listed id >= 70 when no listed id
\* passes the filter, whatever its size.  Here the engine answers every
\* getValidActions with one id at or above action_space_size that it has not
\* named before.  Such ids are interchangeable, so two of them stand for all:
\* the set of tried ids keeps the latest of them and forgets the earlier
\* ones, which the engine never names again, and invalid_attempts is counted
\* up to MaxCounted.  The chain reads neither what was forgotten nor the
\* counter, so every run here is the image of a run of step.
FreshId(tried) ==
    IF action_space_size \in tried THEN action_space_size + 1
    ELSE action_space_size

\* tried_actions.add(a), forgetting earlier ids beyond the action space
Remembered(tried, a) == {x \in tried : x < action_space_size} \cup {a}

Counted(n) == Min(n + 1, MaxCounted)

\* What get_valid_actions returns when the engine lists the one new id.
FreshValidActions(tried) ==
    GetValidActions(game_state, player_id,
                    [err |-> FALSE, actions |-> <<FreshId(tried)>>], <<FALSE>>)

\* Lines 633-660: validation rejects `action`; the new id is the first
\* untried alternative and the loop continues with it.
RejectedThenFresh ==
    /\ pc = "loop"
    /\ LET tried == Remembered(tried_actions, action)
           alt_actions == AltActions(FreshValidActions(tried), tried)
       IN  /\ alt_actions # <<>>
           /\ invalid_attempts' = Counted(invalid_attempts)
           /\ tried_actions' = tried
           /\ action' = alt_actions[1]
           /\ pc' = "loop"
    /\ all_errors' = FALSE
    /\ UNCHANGED <<envVars, player_id, step_count, response, discards, reward,
                   decay, done, gs0, tallied0, attempted, attempts,
                   reattempted, candidates, failures>>

\* Lines 662-705: validation accepts `action`, the move is answered without
\* success, and the new id is the first untried alternative.
FailedThenFresh ==
    /\ pc = "loop"
    /\ \E r \in {x \in MoveReplies : ~x.success} :
         LET tried == Remembered(tried_actions, action)
             alt_actions == AltActions(FreshValidActions(tried), tried)
         IN  /\ alt_actions # <<>>
             /\ response' = r
             /\ invalid_attempts' = Counted(invalid_attempts)
             /\ tried_actions' = tried
             /\ action' = alt_actions[1]
             /\ pc' = "loop"
    /\ all_errors' = FALSE
    /\ UNCHANGED <<envVars, player_id, step_count, discards, reward, decay,
                   done, gs0, tallied0, attempted, attempts, reattempted,
                   candidates, failures>>

NextFresh ==
    \/ StepBegin /\ UNCHANGED <<gvaVars, sendVars, epVars, managerVars>>
    \/ RejectedThenFresh /\ UNCHANGED <<gvaVars, sendVars, epVars, managerVars>>
    \/ FailedThenFresh /\ UNCHANGED <<gvaVars, sendVars, epVars, managerVars>>
    \/ MoveSucceeded /\ UNCHANGED <<gvaVars, sendVars, epVars, managerVars>>
    \/ StepFinish /\ UNCHANGED <<gvaVars, sendVars, epVars, managerVars>>
\* A call of step runs on: it waits on nothing but the bounded polls of
\* send_command.
FairFresh == Init /\ [][NextFresh]_vars /\ WF_vars(NextFresh)

\* C1 (as claimed): whatever the engine replies, the retry chain of step
\* comes to an end.
C1_ChainTerminates == <>StepEnded

\* C1, the bound on the attempts while the chain runs: see AttemptsBounded.

\* C2: within one step no id is attempted twice.
C2_NoReattempt ==
    /\ ~reattempted
    /\ attempts = Cardinality(attempted)
    /\ attempted = tried_actions

C2_Witness ==
    /\ pc = "returned"
    /\ attempts >= 4
    /\ DiscardLo \in candidates
    /\ response.success

\* C3 (as claimed): at the end of the chain the invalid-attempt counter
\* equals the validation rejections plus the move commands answered
\* without success.
C3_CounterCountsEveryFailure ==
    pc = "after" => invalid_attempts = failures

\* C5 (as claimed): when every command of a step is answered by an error
\* object, step returns normally with done = False and leaves game_state as
\* it found it.
C5_DeadEngineStepReturns ==
    (StepEnded /\ all_errors) =>
        /\ pc = "returned"
        /\ ~done
        /\ game_state = gs0

\* C8 (as claimed): the reward a step returns, with its terminal bonus,
\* equals what the step added to the event totals and the bonus totals.
C8_EventTotalsMatchReward ==
    pc = "returned" =>
        reward + last_step_info.win_bonus + last_step_info.final_move_bonus
        = Tallied - tallied0

\* ---- send_command alone
InitSend ==
    /\ game_state = NoneState
    /\ EnvFresh
    /\ StepIdle
    /\ GvaIdle
    /\ SendInit
    /\ EpIdle
    /\ ManagerIdle
NextSend ==
    \/ SendCommandCall /\ UNCHANGED <<envVars, stepVars, gvaVars, epVars, managerVars>>
    \/ PollNothing /\ UNCHANGED <<envVars, stepVars, gvaVars, epVars, managerVars>>
    \/ PollReadError /\ UNCHANGED <<envVars, stepVars, gvaVars, epVars, managerVars>>
    \/ PollLine /\ UNCHANGED <<envVars, stepVars, gvaVars, epVars, managerVars>>
    \/ PollExhausted /\ UNCHANGED <<envVars, stepVars, gvaVars, epVars, managerVars>>
    \/ EngineWrites /\ UNCHANGED <<envVars, stepVars, gvaVars, epVars, managerVars>>
    \/ EngineExits /\ UNCHANGED <<envVars, stepVars, gvaVars, epVars, managerVars>>
SpecSend == InitSend /\ [][NextSend]_vars

IsJson(l) == l.kind = "json"

\* C4: send_command never raises and makes at most 20 polls; what it returns
\* is an error object when there was no process, when the process had exited,
\* when the write failed, or when 20 polls parsed no JSON object; in every
\* other case it is the JSON object parsed from the line it read last.
C4_ErrorObjectOrParsedJson ==
    /\ send_pc # "raised"
    /\ polls <= SendPolls
    /\ send_pc = "returned" =>
          /\ node_at_call = "none" =>
                send_result = ErrorObject("Game process not started")
          /\ node_at_call = "exited" =>
                send_result = ErrorObject("Process terminated")
          /\ write_failed => send_result = ErrorObject("Communication error")
          /\ (node_at_call = "running" /\ ~write_failed) =>
                IF json_skipped \/ \E i \in 1..Len(lines_read) : IsJson(lines_read[i])
                THEN /\ send_result = ParsedObject(lines_read[Len(lines_read)])
                     /\ IsJson(lines_read[Len(lines_read)])
                     /\ ~json_skipped
                ELSE /\ send_result = ErrorObject("Timeout waiting for response")
                     /\ polls = SendPolls

C4_Witness ==
    /\ send_pc = "returned"
    /\ ncalls = 2
    /\ send_result = ErrorObject("Timeout waiting for response")
    /\ lines_read = <<BadLine>>

\* ------------------------------------------ the curriculum and reward tuner
\* train(num_envs > 1) runs train_episode on NumLanes environments at once,
\* one thread per lane, round after round; the block of train_episode after
\* the step loop (trainer.py 456-503) works on the manager's shared fields.
\* A stage needs StageGamesNeeded episodes (5000 in the program) and the window
\* holds WindowLen outcomes (deque(maxlen=500)).  Win rates are compared as
\* fractions wins / n; reward multipliers are integers in tenths.
NumLanes == 2
MaxRounds == 2
StageGamesNeeded == 3
WindowLen == 2

HEAVY_REWARD_BASE == 2000
WINRATE_TARGET == 75
WinrateMargin == 15
AdvanceWinRate == 55
MAX_REWARD_MULTIPLIER == 20
MIN_REWARD_MULTIPLIER == 5
REWARD_TUNE_STEP == 1
DefaultMultiplier == 10

\* REWARD_SCHEDULE = [(0, HEAVY_REWARD_BASE)]
REWARD_SCHEDULE == <<[start |-> 0, value |-> HEAVY_REWARD_BASE]>>

Lanes == 1..NumLanes
\* [self.env] + self.envs: environment 0 is self.env, which train runs alone
\* when num_envs <= 1; lane l runs self.envs[l-1]
Envs == 0..NumLanes

\* d.get(k, default) and d[k] = v on a dict
Get(d, k, default) == IF k \in DOMAIN d THEN d[k] ELSE default
Put(d, k, v) == [x \in (DOMAIN d) \cup {k} |-> IF x = k THEN v ELSE d[x]]

RECURSIVE SumSeq(_)
SumSeq(q) == IF q = <<>> THEN 0 ELSE Head(q) + SumSeq(Tail(q))

\* deque(maxlen=WindowLen).append(x)
AppendWindow(q, x) ==
    IF Len(q) < WindowLen THEN Append(q, x) ELSE Append(Tail(q), x)

\* win_rate = sum(recent_outcomes) / len(recent_outcomes) if recent_outcomes
\* else 0.0, kept as the pair it is computed from
WinRate(q) == [wins |-> SumSeq(q), n |-> Len(q)]
RateBelow(r, pct) == IF r.n = 0 THEN 0 < pct ELSE 100 * r.wins < pct * r.n
RateAbove(r, pct) == IF r.n = 0 THEN 0 > pct ELSE 100 * r.wins > pct * r.n

\* A tuner that steps without clamping to the bounds.
StepUnclamped(factor, r) ==
    IF RateBelow(r, WINRATE_TARGET) THEN factor + REWARD_TUNE_STEP
    ELSE IF RateAbove(r, WINRATE_TARGET + WinrateMargin)
         THEN factor - REWARD_TUNE_STEP
         ELSE factor

\* _adjust_reward_multiplier: the factor it writes for the factor it read
AdjustedFactor(factor, r) ==
    IF RateBelow(r, WINRATE_TARGET)
    THEN Min(factor + REWARD_TUNE_STEP, MAX_REWARD_MULTIPLIER)
    ELSE IF RateAbove(r, WINRATE_TARGET + WinrateMargin)
         THEN IF factor - REWARD_TUNE_STEP < MIN_REWARD_MULTIPLIER
              THEN MIN_REWARD_MULTIPLIER ELSE factor - REWARD_TUNE_STEP
         ELSE factor

\* A schedule that is never consulted: the weight stays env.heavy_reward.
WeightKept(sched, i, episode, weight) == weight

\* weight = env.heavy_reward; for start, value in REWARD_SCHEDULE:
\*     if episode >= start: weight = value
RECURSIVE ScheduleWeight(_, _, _, _)
ScheduleWeight(sched, i, episode, weight) ==
    IF i > Len(sched) THEN weight
    ELSE ScheduleWeight(sched, i + 1, episode,
                        IF episode >= sched[i].start THEN sched[i].value
                        ELSE weight)

\* _apply_reward_schedule(episode, env): the heavy_reward and win_bonus it sets
ApplyRewardSchedule(episode, heavy, mult, pieces) ==
    LET weight == ScheduleWeight(REWARD_SCHEDULE, 1, episode, heavy)
        multiplier == Get(mult, pieces, DefaultMultiplier)
    IN  [heavy_reward |-> (weight * multiplier) \div 10,
         win_bonus |-> (WIN_BONUS * multiplier) \div 10,
         multiplier |-> multiplier]

\* env.set_piece_count(pieces): max(1, min(5, int(pieces)))
SetPieceCount(pieces) == IF pieces < 1 THEN 1 ELSE Min(MaxPieces, pieces)

NotApplied == [done |-> FALSE, episode |-> 0, multiplier |-> DefaultMultiplier]

\* The manager between two rounds: new (pieces_per_player = 1, nothing
\* counted), or one episode short of the end of a stage, with the window
\* full and the multiplier of every level reached so far at one value.
CurStart ==
    \E p \in 1..MaxPieces, fresh \in BOOLEAN,
       v \in {MIN_REWARD_MULTIPLIER, DefaultMultiplier, MAX_REWARD_MULTIPLIER} :
        /\ fresh => p = 1 /\ v = DefaultMultiplier
        /\ pieces_per_player = p
        /\ turn_limit = TurnsPerPiece * p
        /\ stage_games = IF fresh THEN 0 ELSE StageGamesNeeded - 1
        /\ recent_outcomes \in
              IF fresh THEN {<<>>}
              ELSE [1..Min(StageGamesNeeded - 1, WindowLen) -> {0, 1}]
        /\ level_reward_multiplier =
              IF fresh THEN <<>> ELSE [k \in 1..p |-> v]
        /\ games_played =
              IF fresh THEN 0
              ELSE StageGamesNeeded * (p - 1) + StageGamesNeeded - 1
        /\ env_pieces = [e \in Envs |-> p]
        /\ env_turn_limit = [e \in Envs |-> TurnsPerPiece * p]

CurInit ==
    /\ CurStart
    /\ lane_pc = [l \in Envs |-> "idle"]
    /\ lane_rate = [l \in Envs |-> WinRate(<<>>)]
    /\ lane_level = [l \in Envs |-> pieces_per_player]
    /\ lane_factor = [l \in Envs |-> DefaultMultiplier]
    /\ env_heavy_reward = [e \in Envs |-> HEAVY_REWARD_BASE]
    /\ env_win_bonus = [e \in Envs |-> WIN_BONUS]
    /\ rounds = 0
    /\ lane_seen = [l \in Envs |-> pieces_per_player]
    /\ since_raise = stage_games
    /\ raise_games = <<>>
    /\ last_adjust = NoAdjust
    /\ applied = [e \in Envs |-> NotApplied]

\* train, lines 628-632: the schedule is applied to every lane's environment
\* and the lanes start their episodes.
StartRound ==
    /\ \A l \in Lanes : lane_pc[l] = "idle"
    /\ rounds < MaxRounds
    /\ LET set(e) == ApplyRewardSchedule(rounds, env_heavy_reward[e],
                                         level_reward_multiplier,
                                         pieces_per_player)
       IN  /\ env_heavy_reward' =
                 [e \in Envs |-> IF e \in Lanes THEN set(e).heavy_reward
                                 ELSE env_heavy_reward[e]]
           /\ env_win_bonus' =
                 [e \in Envs |-> IF e \in Lanes THEN set(e).win_bonus
                                 ELSE env_win_bonus[e]]
           /\ applied' =
                 [e \in Envs |-> IF e \in Lanes
                                 THEN [done |-> TRUE, episode |-> rounds,
                                       multiplier |-> set(e).multiplier]
                                 ELSE applied[e]]
    /\ lane_pc' = [l \in Envs |-> IF l \in Lanes THEN "outcome" ELSE lane_pc[l]]
    /\ rounds' = rounds + 1
    /\ UNCHANGED <<lane_rate, lane_level, lane_factor, stage_games,
                   recent_outcomes, level_reward_multiplier, games_played,
                   env_pieces, env_turn_limit, lane_seen, since_raise,
                   raise_games, last_adjust, pieces_per_player, turn_limit>>

\* train, lines 585-587, when num_envs <= 1: the schedule is applied to
\* self.env and train_episode(self.env) is called.
StartSingle ==
    /\ lane_pc[0] = "idle"
    /\ rounds < MaxRounds
    /\ LET set == ApplyRewardSchedule(rounds, env_heavy_reward[0],
                                      level_reward_multiplier,
                                      pieces_per_player)
       IN  /\ env_heavy_reward' = [env_heavy_reward EXCEPT ![0] = set.heavy_reward]
           /\ env_win_bonus' = [env_win_bonus EXCEPT ![0] = set.win_bonus]
           /\ applied' = [applied EXCEPT ![0] =
                             [done |-> TRUE, episode |-> rounds,
                              multiplier |-> set.multiplier]]
    /\ lane_pc' = [lane_pc EXCEPT ![0] = "outcome"]
    /\ rounds' = rounds + 1
    /\ UNCHANGED <<lane_rate, lane_level, lane_factor, stage_games,
                   recent_outcomes, level_reward_multiplier, games_played,
                   env_pieces, env_turn_limit, lane_seen, since_raise,
                   raise_games, last_adjust, pieces_per_player, turn_limit>>

\* train_episode(self.env) has returned
EndSingle ==
    /\ lane_pc[0] = "finished"
    /\ lane_pc' = [lane_pc EXCEPT ![0] = "idle"]
    /\ UNCHANGED <<lane_rate, lane_level, lane_factor, stage_games,
                   recent_outcomes, level_reward_multiplier, games_played,
                   env_pieces, env_turn_limit, env_heavy_reward, env_win_bonus,
                   rounds, lane_seen, since_raise, raise_games, last_adjust,
                   applied, pieces_per_player, turn_limit>>

\* lines 457-467: the episode's outcome enters the window
LaneOutcome(l) ==
    /\ lane_pc[l] = "outcome"
    /\ \E won \in {0, 1} : recent_outcomes' = AppendWindow(recent_outcomes, won)
    /\ lane_pc' = [lane_pc EXCEPT ![l] = "count"]
    /\ UNCHANGED <<lane_rate, lane_level, lane_factor, stage_games,
                   level_reward_multiplier, games_played, env_pieces,
                   env_turn_limit, env_heavy_reward, env_win_bonus, rounds,
                   lane_seen, since_raise, raise_games, last_adjust, applied,
                   pieces_per_player, turn_limit>>

\* line 470: self.stage_games += 1
LaneCount(l) ==
    /\ lane_pc[l] = "count"
    /\ stage_games' = stage_games + 1
    /\ since_raise' = since_raise + 1
    /\ lane_pc' = [lane_pc EXCEPT ![l] = "rate"]
    /\ UNCHANGED <<lane_rate, lane_level, lane_factor, recent_outcomes,
                   level_reward_multiplier, games_played, env_pieces,
                   env_turn_limit, env_heavy_reward, env_win_bonus, rounds,
                   lane_seen, raise_games, last_adjust, applied,
                   pieces_per_player, turn_limit>>

\* lines 472-476: win_rate over the window
LaneRate(l) ==
    /\ lane_pc[l] = "rate"
    /\ lane_rate' = [lane_rate EXCEPT ![l] = WinRate(recent_outcomes)]
    /\ lane_pc' = [lane_pc EXCEPT ![l] = "adjust"]
    /\ UNCHANGED <<lane_level, lane_factor, stage_games, recent_outcomes,
                   level_reward_multiplier, games_played, env_pieces,
                   env_turn_limit, env_heavy_reward, env_win_bonus, rounds,
                   lane_seen, since_raise, raise_games, last_adjust, applied,
                   pieces_per_player, turn_limit>>

\* _adjust_reward_multiplier, lines 274-279: the level and its factor are
\* read and the new factor computed
LaneAdjustRead(l) ==
    /\ lane_pc[l] = "adjust"
    /\ lane_level' = [lane_level EXCEPT ![l] = pieces_per_player]
    /\ lane_factor' =
          [lane_factor EXCEPT ![l] =
              Get(level_reward_multiplier, pieces_per_player, DefaultMultiplier)]
    /\ lane_pc' = [lane_pc EXCEPT ![l] = "write"]
    /\ UNCHANGED <<lane_rate, stage_games, recent_outcomes,
                   level_reward_multiplier, games_played, env_pieces,
                   env_turn_limit, env_heavy_reward, env_win_bonus, rounds,
                   lane_seen, since_raise, raise_games, last_adjust, applied,
                   pieces_per_player, turn_limit>>

\* line 280: self.level_reward_multiplier[level] = factor
LaneAdjustWrite(l) ==
    /\ lane_pc[l] = "write"
    /\ level_reward_multiplier' =
          Put(level_reward_multiplier, lane_level[l],
              AdjustedFactor(lane_factor[l], lane_rate[l]))
    /\ last_adjust' = [level |-> lane_level[l], read |-> lane_factor[l],
                       wins |-> lane_rate[l].wins, n |-> lane_rate[l].n,
                       before |-> level_reward_multiplier,
                       after |-> level_reward_multiplier']
    /\ lane_pc' = [lane_pc EXCEPT ![l] = "apply"]
    /\ UNCHANGED <<lane_rate, lane_level, lane_factor, stage_games,
                   recent_outcomes, games_played, env_pieces, env_turn_limit,
                   env_heavy_reward, env_win_bonus, rounds, lane_seen,
                   since_raise, raise_games, applied, pieces_per_player,
                   turn_limit>>

\* line 283: self._apply_reward_schedule(games_played, env)
LaneApply(l) ==
    /\ lane_pc[l] = "apply"
    /\ LET set == ApplyRewardSchedule(games_played, env_heavy_reward[l],
                                      level_reward_multiplier,
                                      pieces_per_player)
       IN  /\ env_heavy_reward' = [env_heavy_reward EXCEPT ![l] = set.heavy_reward]
           /\ env_win_bonus' = [env_win_bonus EXCEPT ![l] = set.win_bonus]
           /\ applied' = [applied EXCEPT ![l] =
                             [done |-> TRUE, episode |-> games_played,
                              multiplier |-> set.multiplier]]
    /\ lane_pc' = [lane_pc EXCEPT ![l] = "check"]
    /\ UNCHANGED <<lane_rate, lane_level, lane_factor, stage_games,
                   recent_outcomes, level_reward_multiplier, games_played,
                   env_pieces, env_turn_limit, rounds, lane_seen, since_raise,
                   raise_games, last_adjust, pieces_per_player, turn_limit>>

\* lines 484-488: the advancement condition
LaneCheck(l) ==
    /\ lane_pc[l] = "check"
    /\ lane_seen' = [lane_seen EXCEPT ![l] = pieces_per_player]
    /\ lane_pc' = [lane_pc EXCEPT ![l] =
          IF /\ stage_games >= StageGamesNeeded
             /\ ~RateBelow(lane_rate[l], AdvanceWinRate)
             /\ pieces_per_player < MaxPieces
          THEN "raise" ELSE "done"]
    /\ UNCHANGED <<lane_rate, lane_level, lane_factor, stage_games,
                   recent_outcomes, level_reward_multiplier, games_played,
                   env_pieces, env_turn_limit, env_heavy_reward, env_win_bonus,
                   rounds, since_raise, raise_games, last_adjust, applied,
                   pieces_per_player, turn_limit>>

\* lines 489-490: pieces_per_player += 1; turn_limit = 100 * pieces_per_player
LaneRaise(l) ==
    /\ lane_pc[l] = "raise"
    /\ pieces_per_player' = pieces_per_player + 1
    /\ turn_limit' = TurnsPerPiece * pieces_per_player'
    /\ raise_games' = Append(raise_games, since_raise)
    /\ since_raise' = 0
    /\ lane_pc' = [lane_pc EXCEPT ![l] = "push"]
    /\ UNCHANGED <<lane_rate, lane_level, lane_factor, stage_games,
                   recent_outcomes, level_reward_multiplier, games_played,
                   env_pieces, env_turn_limit, env_heavy_reward, env_win_bonus,
                   rounds, lane_seen, last_adjust, applied>>

\* lines 491-493: every environment takes the manager's values
LanePush(l) ==
    /\ lane_pc[l] = "push"
    /\ env_pieces' = [e \in Envs |-> SetPieceCount(pieces_per_player)]
    /\ env_turn_limit' = [e \in Envs |-> turn_limit]
    /\ lane_pc' = [lane_pc EXCEPT ![l] = "reset"]
    /\ UNCHANGED <<lane_rate, lane_level, lane_factor, stage_games,
                   recent_outcomes, level_reward_multiplier, games_played,
                   env_heavy_reward, env_win_bonus, rounds, lane_seen,
                   since_raise, raise_games, last_adjust, applied,
                   pieces_per_player, turn_limit>>

\* lines 496-498: the stage counter and the window are reset
LaneReset(l) ==
    /\ lane_pc[l] = "reset"
    /\ stage_games' = 0
    /\ recent_outcomes' = <<>>
    /\ lane_pc' = [lane_pc EXCEPT ![l] = "done"]
    /\ UNCHANGED <<lane_rate, lane_level, lane_factor,
                   level_reward_multiplier, games_played, env_pieces,
                   env_turn_limit, env_heavy_reward, env_win_bonus, rounds,
                   lane_seen, since_raise, raise_games, last_adjust, applied,
                   pieces_per_player, turn_limit>>

\* line 528: training_stats['games_played'] += 1, and train_episode returns
LaneFinish(l) ==
    /\ lane_pc[l] = "done"
    /\ games_played' = games_played + 1
    /\ lane_pc' = [lane_pc EXCEPT ![l] = "finished"]
    /\ UNCHANGED <<lane_rate, lane_level, lane_factor, stage_games,
                   recent_outcomes, level_reward_multiplier, env_pieces,
                   env_turn_limit, env_heavy_reward, env_win_bonus, rounds,
                   lane_seen, since_raise, raise_games, last_adjust, applied,
                   pieces_per_player, turn_limit>>

\* executor.map returns when every lane's episode has returned
EndRound ==
    /\ \A l \in Lanes : lane_pc[l] = "finished"
    /\ lane_pc' = [l \in Envs |-> IF l \in Lanes THEN "idle" ELSE lane_pc[l]]
    /\ UNCHANGED <<lane_rate, lane_level, lane_factor, stage_games,
                   recent_outcomes, level_reward_multiplier, games_played,
                   env_pieces, env_turn_limit, env_heavy_reward, env_win_bonus,
                   rounds, lane_seen, since_raise, raise_games, last_adjust,
                   applied, pieces_per_player, turn_limit>>

\* What a curriculum step leaves alone.
CurFrame ==
    UNCHANGED <<envVars, stepVars, gvaVars, sendVars, ep_pc, max_steps,
                ep_step_count, ep_done, episode_rewards, currentPlayerIndex,
                episodes, start_limit, steps_made, stepped_after_done,
                reported_ended, earned, botVars, ckVars, closeVars,
                rsVars, stVars, acVars, pnVars, ehVars,
                adVars, trVars, cbVars, tnVars>>

InitCurriculum ==
    /\ TnIdle
    /\ CbIdle
    /\ TrIdle
    /\ AdIdle
    /\ EhIdle
    /\ PnIdle
    /\ AcIdle
    /\ StIdle
    /\ RsIdle
    /\ game_state = NoneState
    /\ EnvFresh
    /\ StepIdle
    /\ GvaIdle
    /\ SendIdle
    /\ ep_pc = "off"
    /\ max_steps = 0
    /\ ep_step_count = 0
    /\ ep_done = FALSE
    /\ episode_rewards = NoRewards
    /\ currentPlayerIndex = 0
    /\ episodes = 0
    /\ start_limit = 0
    /\ steps_made = 0
    /\ stepped_after_done = FALSE
    /\ reported_ended = FALSE
    /\ earned = NoRewards
    /\ CurInit
    /\ BotIdle
    /\ CkIdle
    /\ CloseIdle

NextCurriculum ==
    \/ StartRound /\ CurFrame
    \/ (\E l \in Lanes : LaneOutcome(l)) /\ CurFrame
    \/ (\E l \in Lanes : LaneCount(l)) /\ CurFrame
    \/ (\E l \in Lanes : LaneRate(l)) /\ CurFrame
    \/ (\E l \in Lanes : LaneAdjustRead(l)) /\ CurFrame
    \/ (\E l \in Lanes : LaneAdjustWrite(l)) /\ CurFrame
    \/ (\E l \in Lanes : LaneApply(l)) /\ CurFrame
    \/ (\E l \in Lanes : LaneCheck(l)) /\ CurFrame
    \/ (\E l \in Lanes : LaneRaise(l)) /\ CurFrame
    \/ (\E l \in Lanes : LanePush(l)) /\ CurFrame
    \/ (\E l \in Lanes : LaneReset(l)) /\ CurFrame
    \/ (\E l \in Lanes : LaneFinish(l)) /\ CurFrame
    \/ EndRound /\ CurFrame

SpecCurriculum == InitCurriculum /\ [][NextCurriculum]_vars

\* train with one environment: episodes of self.env one after the other
NextSingle ==
    \/ StartSingle /\ CurFrame
    \/ LaneOutcome(0) /\ CurFrame
    \/ LaneCount(0) /\ CurFrame
    \/ LaneRate(0) /\ CurFrame
    \/ LaneAdjustRead(0) /\ CurFrame
    \/ LaneAdjustWrite(0) /\ CurFrame
    \/ LaneApply(0) /\ CurFrame
    \/ LaneCheck(0) /\ CurFrame
    \/ LaneRaise(0) /\ CurFrame
    \/ LanePush(0) /\ CurFrame
    \/ LaneReset(0) /\ CurFrame
    \/ LaneFinish(0) /\ CurFrame
    \/ EndSingle /\ CurFrame

SpecSingle == InitCurriculum /\ [][NextSingle]_vars

\* C11 (as claimed): pieces_per_player rises once per stage: every rise comes
\* after at least the required number of episodes counted since the rise
\* before it (or since the stage began), and takes pieces_per_player exactly
\* one above the value the lane saw when it tested the condition.
C11_OneRaisePerStage ==
    /\ \A i \in 1..Len(raise_games) : raise_games[i] >= StageGamesNeeded
    /\ \A l \in Envs :
          lane_pc[l] = "push" => pieces_per_player = lane_seen[l] + 1

\* C12 (as claimed): pieces_per_player stays inside 1..5 (here 1..MaxPieces),
\* turn_limit is the per-piece limit times pieces_per_player, and between
\* rounds every environment holds the manager's pieces_per_player and
\* turn_limit.
C12_StageSharedByRunners ==
    /\ pieces_per_player \in 1..MaxPieces
    /\ turn_limit = TurnsPerPiece * pieces_per_player
    /\ (\A l \in Envs : lane_pc[l] = "idle") =>
          \A e \in Envs : /\ env_pieces[e] = pieces_per_player
                          /\ env_turn_limit[e] = turn_limit

\* C13: every multiplier stays inside [MIN_REWARD_MULTIPLIER,
\* MAX_REWARD_MULTIPLIER]; a call of _adjust_reward_multiplier writes, for the
\* factor it read, one step more when the win rate is below WINRATE_TARGET,
\* one step less when it is above WINRATE_TARGET + 0.15, the same factor
\* otherwise, clamped to the bounds; and it writes the entry of its level
\* only.
C13_MultiplierSteppedAndClamped ==
    /\ \A k \in DOMAIN level_reward_multiplier :
          /\ level_reward_multiplier[k] >= MIN_REWARD_MULTIPLIER
          /\ level_reward_multiplier[k] <= MAX_REWARD_MULTIPLIER
    /\ last_adjust.level # 0 =>
          LET a == last_adjust
              r == [wins |-> a.wins, n |-> a.n]
              new == a.after[a.level]
              up == a.read + REWARD_TUNE_STEP
              down == a.read - REWARD_TUNE_STEP
          IN  /\ RateBelow(r, WINRATE_TARGET) =>
                    new = IF up > MAX_REWARD_MULTIPLIER
                          THEN MAX_REWARD_MULTIPLIER ELSE up
              /\ RateAbove(r, WINRATE_TARGET + WinrateMargin) =>
                    new = IF down < MIN_REWARD_MULTIPLIER
                          THEN MIN_REWARD_MULTIPLIER ELSE down
              /\ (~RateBelow(r, WINRATE_TARGET)
                  /\ ~RateAbove(r, WINRATE_TARGET + WinrateMargin)) =>
                    new = a.read
              /\ DOMAIN a.after = (DOMAIN a.before) \cup {a.level}
              /\ \A k \in (DOMAIN a.before) \ {a.level} :
                    a.after[k] = a.before[k]

\* A call at level 2 that read the largest multiplier with a win rate of 0
\* and left it clamped, level 1 holding an entry of its own.
C13_Witness ==
    /\ last_adjust.level = 2
    /\ last_adjust.read = MAX_REWARD_MULTIPLIER
    /\ last_adjust.n > 0 /\ last_adjust.wins = 0
    /\ 1 \in DOMAIN last_adjust.before
    /\ last_adjust.after[2] = MAX_REWARD_MULTIPLIER

\* The value of the last schedule entry whose threshold is <= episode.
ScheduledValue(episode) ==
    LET idx == {i \in 1..Len(REWARD_SCHEDULE) :
                   REWARD_SCHEDULE[i].start <= episode}
        last == CHOOSE i \in idx : \A j \in idx : j <= i
    IN  REWARD_SCHEDULE[last].value

\* C14: after _apply_reward_schedule(episode, env) the environment's
\* heavy_reward is the scheduled value for that episode times the multiplier
\* of the current level and its win_bonus is WIN_BONUS times that multiplier,
\* whatever heavy_reward the environment held before (no compounding).
C14_ScheduleSetsWeight ==
    \A e \in Envs :
        applied[e].done =>
            /\ env_heavy_reward[e] =
                  (ScheduledValue(applied[e].episode) * applied[e].multiplier)
                      \div 10
            /\ env_win_bonus[e] = (WIN_BONUS * applied[e].multiplier) \div 10

\* An environment to which the schedule was applied at the start of the round
\* and again by _adjust_reward_multiplier, both times with the largest
\* multiplier.
C14_Witness ==
    \E l \in Envs :
        /\ lane_pc[l] = "check"
        /\ applied[l].done /\ applied[l].episode > 0
        /\ applied[l].multiplier = MAX_REWARD_MULTIPLIER
        /\ last_adjust.read = MAX_REWARD_MULTIPLIER
        /\ env_heavy_reward[l] = 2 * HEAVY_REWARD_BASE

\* ======================================================================
\* The Agents under the lanes of train (trainer.py train 627-632,
\* train_episode 307-435; bot.py GameBot 62-193).  Every lane runs
\* train_episode over the same self.bots and the same train_focus_idx; the
\* lock an Agent creates (bot.py 89) is acquired nowhere, so the lanes
\* interleave between any two of the steps below.
\* ======================================================================

\* ---- bounds
MaxLaneSteps == 2        \* steps of the loop one lane runs (turn_limit)
BatchSize == 1           \* batch_size of an Agent, 64 in config.py
TrainFreq == 1           \* train_freq of an Agent, 4 in config.py

\* ---- constants of the program
NumBots == 4             \* create_bots(num_bots=4)

BotIds == 1..NumBots
TrainableCounts == {0, 1, 2}      \* values of num_trainable_bots tried
TransitionIds == Lanes \X (1..MaxLaneSteps)
SeatOrder == [i \in 1..NumBots |-> i - 1]

\* the seatings random.shuffle(self.bots) can produce
Seatings == {f \in [Seats -> BotIds] : \A b \in BotIds : \E s \in Seats : f[s] = b}

\* _shuffle_bots 190-192: the seats of the trainable bots in seat order, and
\* the one the focus pointer selects; train_focus_idx is kept when no bot is
\* trainable
TrainableIndices(seating, tr) ==
    SelectSeq(SeatOrder, LAMBDA i : seating[i] \in tr)

FocusIndex(seating, tr, pointer, old) ==
    LET idx == TrainableIndices(seating, tr)
    IN  IF Len(idx) > 0 THEN idx[(pointer % Len(idx)) + 1] ELSE old

\* the tests at 387-390 and 409-412 as lane l evaluates them
IsFocusSeat(l) == ag_player[l] = train_focus_idx

\* ---- Init: create_bots has run (bot i is trainable iff i <
\* num_trainable_bots), every memory is empty, no lane has started
AgInit ==
    /\ bots = [s \in Seats |-> s + 1]
    /\ train_focus_idx = 0
    /\ \E k \in TrainableCounts : trainable = 1..k
    /\ memory = [b \in BotIds |-> <<>>]
    /\ bot_step_count = [b \in BotIds |-> 0]
    /\ ag_pc = [l \in Lanes |-> "start"]
    /\ ag_player = [l \in Lanes |-> 0]
    /\ ag_bot = [l \in Lanes |-> 0]
    /\ ag_seen = [l \in Lanes |-> {}]
    /\ ag_steps = [l \in Lanes |-> 0]
    /\ ag_batch = [l \in Lanes |-> <<>>]
    /\ consumed = [t \in TransitionIds |-> 0]
    /\ last_stored = NotStored
    /\ stored = {}

\* train_episode 311-350: the focus pointer (a function of games_played, an
\* input here), _shuffle_bots, and the fresh states list of the episode.  The
\* snapshot loading at 327-335 changes weights of opponents, no memory.
AgShuffle(l) ==
    /\ ag_pc[l] = "start"
    /\ \E seating \in Seatings, pointer \in 0..(NumBots - 1) :
          /\ bots' = seating
          /\ train_focus_idx' = FocusIndex(seating, trainable, pointer, train_focus_idx)
    /\ ag_seen' = [ag_seen EXCEPT ![l] = {}]
    /\ ag_pc' = [ag_pc EXCEPT ![l] = "pick"]
    /\ UNCHANGED <<trainable, memory, bot_step_count, ag_player, ag_bot,
                   ag_steps, ag_batch, consumed, last_stored, stored>>

\* 352-369: the loop guard, current_player from the lane's own engine,
\* current_bot = self.bots[current_player], and the call of act
AgPick(l) ==
    /\ ag_pc[l] = "pick"
    /\ ag_steps[l] < MaxLaneSteps
    /\ \E p \in Seats :
          /\ ag_player' = [ag_player EXCEPT ![l] = p]
          /\ ag_bot' = [ag_bot EXCEPT ![l] = bots[p]]
    /\ ag_pc' = [ag_pc EXCEPT ![l] = "in_act"]
    /\ UNCHANGED <<bots, train_focus_idx, trainable, memory, bot_step_count,
                   ag_seen, ag_steps, ag_batch, consumed, last_stored, stored>>

\* 352: the loop ends, and with it the locals of the episode
AgEnd(l) ==
    /\ ag_pc[l] = "pick"
    /\ ag_steps[l] >= MaxLaneSteps
    /\ ag_pc' = [ag_pc EXCEPT ![l] = "ended"]
    /\ ag_player' = [ag_player EXCEPT ![l] = 0]
    /\ ag_bot' = [ag_bot EXCEPT ![l] = 0]
    /\ ag_seen' = [ag_seen EXCEPT ![l] = {}]
    /\ UNCHANGED <<bots, train_focus_idx, trainable, memory, bot_step_count,
                   ag_steps, ag_batch, consumed, last_stored, stored>>

\* 369-390: act returns, env.step runs, and the test at 387-390 is true:
\* remember is called on current_bot
AgActExitFocus(l) ==
    /\ ag_pc[l] = "in_act"
    /\ IsFocusSeat(l) /\ ag_player[l] \in ag_seen[l]
    /\ ag_pc' = [ag_pc EXCEPT ![l] = "in_remember"]
    /\ UNCHANGED <<bots, train_focus_idx, trainable, memory, bot_step_count,
                   ag_player, ag_bot, ag_seen, ag_steps, ag_batch, consumed,
                   last_stored, stored>>

\* 369-390: the same with the test false
AgActExitOther(l) ==
    /\ ag_pc[l] = "in_act"
    /\ ~(IsFocusSeat(l) /\ ag_player[l] \in ag_seen[l])
    /\ ag_pc' = [ag_pc EXCEPT ![l] = "track"]
    /\ UNCHANGED <<bots, train_focus_idx, trainable, memory, bot_step_count,
                   ag_player, ag_bot, ag_seen, ag_steps, ag_batch, consumed,
                   last_stored, stored>>

\* bot.py remember 118-132: self.memory.append(...)
AgRememberExit(l) ==
    /\ ag_pc[l] = "in_remember"
    /\ memory' = [memory EXCEPT ![ag_bot[l]] = Append(@, <<l, ag_steps[l] + 1>>)]
    /\ last_stored' = [called |-> TRUE, bot |-> ag_bot[l],
                       focus_bot |-> bots[train_focus_idx]]
    /\ ag_pc' = [ag_pc EXCEPT ![l] = "track"]
    /\ stored' = stored \cup {<<l, ag_steps[l] + 1>>}
    /\ UNCHANGED <<bots, train_focus_idx, trainable, bot_step_count, ag_player,
                   ag_bot, ag_seen, ag_steps, ag_batch, consumed>>

\* the part of 401-435 every step runs: states[current_player] = state,
\* current_bot.step_count += 1, step_count += 1.  The program reads
\* step_count only modulo train_freq (and modulo update_target_freq, for a
\* call that does nothing), and the model keeps it modulo TrainFreq.
Tracked(l) ==
    /\ ag_seen' = [ag_seen EXCEPT ![l] = @ \cup {ag_player[l]}]
    /\ bot_step_count' = [bot_step_count EXCEPT ![ag_bot[l]] = (@ + 1) % TrainFreq]

ReplayDue(l) ==
    /\ IsFocusSeat(l)
    /\ (bot_step_count[ag_bot[l]] + 1) % TrainFreq = 0

\* 401-412 and bot.py replay 134-138: replay is due and the memory holds a
\* batch; replay reads it (zip(*self.memory))
AgTrackReplay(l) ==
    /\ ag_pc[l] = "track"
    /\ ReplayDue(l)
    /\ Len(memory[ag_bot[l]]) >= BatchSize
    /\ Tracked(l)
    /\ ag_batch' = [ag_batch EXCEPT ![l] = memory[ag_bot[l]]]
    /\ ag_pc' = [ag_pc EXCEPT ![l] = "replay_read"]
    /\ UNCHANGED <<bots, train_focus_idx, trainable, memory, ag_player, ag_bot,
                   ag_steps, consumed, last_stored, stored>>

\* 401-412 and bot.py replay 135-136: replay is due and returns None, the
\* memory is shorter than a batch
AgTrackShort(l) ==
    /\ ag_pc[l] = "track"
    /\ ReplayDue(l)
    /\ Len(memory[ag_bot[l]]) < BatchSize
    /\ Tracked(l)
    /\ ag_steps' = [ag_steps EXCEPT ![l] = @ + 1]
    /\ ag_pc' = [ag_pc EXCEPT ![l] = "pick"]
    /\ UNCHANGED <<bots, train_focus_idx, trainable, memory, ag_player, ag_bot,
                   ag_batch, consumed, last_stored, stored>>

\* 401-435: replay is not due
AgTrackNext(l) ==
    /\ ag_pc[l] = "track"
    /\ ~ReplayDue(l)
    /\ Tracked(l)
    /\ ag_steps' = [ag_steps EXCEPT ![l] = @ + 1]
    /\ ag_pc' = [ag_pc EXCEPT ![l] = "pick"]
    /\ UNCHANGED <<bots, train_focus_idx, trainable, memory, ag_player, ag_bot,
                   ag_batch, consumed, last_stored, stored>>

\* a replay that reads the memory and leaves it as it is
AgReplayKeep(l) ==
    /\ ag_pc[l] = "replay_read"
    /\ ag_pc' = [ag_pc EXCEPT ![l] = "replay_update"]
    /\ UNCHANGED <<bots, train_focus_idx, trainable, memory, bot_step_count,
                   ag_player, ag_bot, ag_seen, ag_steps, ag_batch, consumed,
                   last_stored, stored>>

\* bot.py replay 139: self.memory = []
AgReplayClear(l) ==
    /\ ag_pc[l] = "replay_read"
    /\ memory' = [memory EXCEPT ![ag_bot[l]] = <<>>]
    /\ ag_pc' = [ag_pc EXCEPT ![l] = "replay_update"]
    /\ UNCHANGED <<bots, train_focus_idx, trainable, bot_step_count, ag_player,
                   ag_bot, ag_seen, ag_steps, ag_batch, consumed, last_stored, stored>>

\* bot.py replay 141-193: the update over the transitions read, and the
\* return to the loop
AgReplayExit(l) ==
    /\ ag_pc[l] = "replay_update"
    /\ consumed' = [t \in TransitionIds |->
                       IF t \in Range(ag_batch[l]) THEN consumed[t] + 1
                                                   ELSE consumed[t]]
    /\ ag_batch' = [ag_batch EXCEPT ![l] = <<>>]
    /\ ag_steps' = [ag_steps EXCEPT ![l] = @ + 1]
    /\ ag_pc' = [ag_pc EXCEPT ![l] = "pick"]
    /\ UNCHANGED <<bots, train_focus_idx, trainable, memory, bot_step_count,
                   ag_player, ag_bot, ag_seen, last_stored, stored>>

AgFrame ==
    UNCHANGED <<envVars, stepVars, gvaVars, sendVars, epVars, curVars, ckVars,
                closeVars, rsVars, stVars, acVars, pnVars,
                ehVars, adVars, trVars, cbVars, tnVars>>

InitAgents ==
    /\ TnIdle
    /\ CbIdle
    /\ TrIdle
    /\ AdIdle
    /\ EhIdle
    /\ PnIdle
    /\ AcIdle
    /\ StIdle
    /\ RsIdle
    /\ game_state = NoneState
    /\ EnvFresh
    /\ StepIdle
    /\ GvaIdle
    /\ SendIdle
    /\ EpIdle
    /\ CurIdle
    /\ CkIdle
    /\ CloseIdle
    /\ AgInit

NextAgents ==
    \/ \E l \in Lanes : AgShuffle(l) /\ AgFrame
    \/ \E l \in Lanes : AgPick(l) /\ AgFrame
    \/ \E l \in Lanes : AgEnd(l) /\ AgFrame
    \/ \E l \in Lanes : AgActExitFocus(l) /\ AgFrame
    \/ \E l \in Lanes : AgActExitOther(l) /\ AgFrame
    \/ \E l \in Lanes : AgRememberExit(l) /\ AgFrame
    \/ \E l \in Lanes : AgTrackReplay(l) /\ AgFrame
    \/ \E l \in Lanes : AgTrackShort(l) /\ AgFrame
    \/ \E l \in Lanes : AgTrackNext(l) /\ AgFrame
    \/ \E l \in Lanes : AgReplayClear(l) /\ AgFrame
    \/ \E l \in Lanes : AgReplayExit(l) /\ AgFrame

SpecAgents == InitAgents /\ [][NextAgents]_vars

\* C15: a transition is stored only into the memory of the bot seated at the
\* focus seat, which is a trainable bot whenever any bot is trainable; the
\* memories of the bots seated elsewhere are left alone.
C15_StoredAtFocusSeat ==
    /\ last_stored.called =>
          /\ last_stored.bot = last_stored.focus_bot
          /\ trainable # {} => last_stored.bot \in trainable
    /\ trainable # {} => bots[train_focus_idx] \in trainable

\* the method of its current_bot lane l is inside of
Inside(l) ==
    CASE ag_pc[l] = "in_act" -> "act"
      [] ag_pc[l] = "in_remember" -> "remember"
      [] ag_pc[l] \in {"replay_read", "replay_update"} -> "replay"
      [] OTHER -> "none"

\* C16: act, remember and replay of one Agent are serialized: no two lanes
\* are inside a method of the same bot at the same time.
C16_AgentCallsSerialized ==
    \A l1 \in Lanes, l2 \in Lanes :
        (l1 # l2 /\ Inside(l1) # "none" /\ Inside(l2) # "none")
            => ag_bot[l1] # ag_bot[l2]

\* where a transition is: in a memory, in the batch of a replay that has
\* cleared the memory and is updating, or trained on (once per update)
Held(t) ==
    (IF \E b \in BotIds : t \in Range(memory[b]) THEN 1 ELSE 0)
    + Cardinality({l \in Lanes : ag_pc[l] = "replay_update" /\ t \in Range(ag_batch[l])})
    + consumed[t]

\* C17: every transition remember appended is consumed by exactly one
\* replay: it is in a memory, or in the one update that took it, never
\* dropped and never in two updates.
C17_ConsumedExactlyOnce ==
    \A t \in stored : Held(t) = 1

\* ======================================================================
\* Checkpoints (bot.py GameBot.save_model 198-205, GameBot.load_model
\* 207-236, DQNBot.save_model 324-331, DQNBot.load_model 333-376).  An
\* Agent is a record of its type, the parameters of its model, the state of
\* its optimizer and its three counters; a checkpoint is the dictionary
\* torch.save writes and torch.load returns.  total_reward is in
\* milli-units.
\* ======================================================================

\* ---- bounds
MaxParam == 1            \* model parameters and optimizer states are 0..MaxParam
MaxStat == 1             \* wins, games_played and total_reward are 0..MaxStat

AgentTypes == {"GameBot", "DQNBot"}

\* the key under which a type saves its parameters, and the key of the other
\* type
OwnKey(type) ==
    IF type = "GameBot" THEN "model_state_dict" ELSE "q_network_state_dict"

OtherKey(type) ==
    IF type = "GameBot" THEN "q_network_state_dict" ELSE "model_state_dict"

\* the parameter names of a type's model: ActorCritic (bot.py 15-57) names
\* them shared/policy_head/value_head, DQNNet (238-250) names them layers
KeyPrefix(type) == IF type = "GameBot" THEN "actor_critic" ELSE "layers"

\* self.model.state_dict() and self.optimizer.state_dict()
StateDict(a) == [prefix |-> KeyPrefix(a.type), params |-> a.weights]
OptimizerStateDict(a) == [kind |-> a.type, val |-> a.optimizer]

\* save_model 198-205 / 324-331
SaveModel(a) ==
    IF a.type = "GameBot"
    THEN [model_state_dict |-> StateDict(a),
          optimizer_state_dict |-> OptimizerStateDict(a),
          wins |-> a.wins,
          games_played |-> a.games_played,
          total_reward |-> a.total_reward]
    ELSE [q_network_state_dict |-> StateDict(a),
          optimizer_state_dict |-> OptimizerStateDict(a),
          wins |-> a.wins,
          games_played |-> a.games_played,
          total_reward |-> a.total_reward]

\* the outcome of a call: the Agent afterwards and the exception raised
Returned(a) == [agent |-> a, raised |-> "none"]
Raised(a, exc) == [agent |-> a, raised |-> exc]

\* load_model 229-236 / 369-376: the counters after a load that did not raise
StatsKept(a, checkpoint, reset_stats) == a

LoadedStats(a, checkpoint, reset_stats) ==
    IF reset_stats
    THEN [a EXCEPT !.wins = 0, !.games_played = 0, !.total_reward = 0]
    ELSE [a EXCEPT !.wins = Get(checkpoint, "wins", 0),
                   !.games_played = Get(checkpoint, "games_played", 0),
                   !.total_reward = Get(checkpoint, "total_reward", 0)]

\* load_model 221-226 / 366-367: the checkpoint holds the other type's key
WrongSchemaAsMissing(a) == Raised(a, "KeyError")

WrongSchema(a) == Raised(a, "ValueError")

\* load_model 227-228 / 368: the checkpoint holds neither key
MissingKey(a) == Raised(a, "KeyError")

\* GameBot.load_model 217-220: load_state_dict is strict and raises
\* RuntimeError for parameters of other names; the optimizer raises
\* ValueError for a state of other parameter groups, the parameters being
\* installed already
GameBotLoad(a, checkpoint, reset_stats) ==
    LET sd == checkpoint["model_state_dict"]
    IN  IF sd.prefix # "actor_critic" THEN Raised(a, "RuntimeError")
        ELSE LET a1 == [a EXCEPT !.weights = sd.params]
             IN  IF "optimizer_state_dict" \in DOMAIN checkpoint
                 THEN LET od == checkpoint["optimizer_state_dict"]
                      IN  IF od.kind # "GameBot" THEN Raised(a1, "ValueError")
                          ELSE Returned(LoadedStats([a1 EXCEPT !.optimizer = od.val],
                                                    checkpoint, reset_stats))
                 ELSE Returned(LoadedStats(a1, checkpoint, reset_stats))

\* DQNBot.load_model 345-365: on RuntimeError the names starting with
\* network. are renamed to layers. and loaded with strict=False, which
\* installs what matches and ignores the rest; a ValueError of the optimizer
\* is swallowed
DQNBotLoad(a, checkpoint, reset_stats) ==
    LET sd == checkpoint["q_network_state_dict"]
        remapped == IF sd.prefix = "network" THEN "layers" ELSE sd.prefix
        a1 == IF sd.prefix = "layers" \/ remapped = "layers"
              THEN [a EXCEPT !.weights = sd.params]
              ELSE a
        a2 == IF "optimizer_state_dict" \in DOMAIN checkpoint
              THEN LET od == checkpoint["optimizer_state_dict"]
                   IN  IF od.kind = "DQNBot" THEN [a1 EXCEPT !.optimizer = od.val]
                                             ELSE a1
              ELSE a1
    IN  Returned(LoadedStats(a2, checkpoint, reset_stats))

\* load_model 207-236 / 333-376
LoadModel(a, checkpoint, reset_stats) ==
    IF OwnKey(a.type) \in DOMAIN checkpoint
    THEN IF a.type = "GameBot" THEN GameBotLoad(a, checkpoint, reset_stats)
                               ELSE DQNBotLoad(a, checkpoint, reset_stats)
    ELSE IF OtherKey(a.type) \in DOMAIN checkpoint THEN WrongSchema(a)
    ELSE MissingKey(a)

\* ---- the inputs
\* the Agents that save: any type, parameters, optimizer state and counters
SourceAgents ==
    [type : AgentTypes, weights : 0..MaxParam, optimizer : 0..MaxParam,
     wins : 0..MaxStat, games_played : 0..MaxStat, total_reward : 0..MaxStat]

\* the Agents that load: a fresh one (counters 0, __init__ 91-93 / 297-299)
\* or one that has played
LoadingAgents ==
    {[type |-> t, weights |-> w, optimizer |-> w, wins |-> n,
      games_played |-> n, total_reward |-> n] :
        t \in AgentTypes, w \in 0..MaxParam, n \in {0, MaxStat}}

CheckpointKeys ==
    {"model_state_dict", "q_network_state_dict", "optimizer_state_dict",
     "wins", "games_played", "total_reward"}

\* a file not written by save_model: any of the keys, the parameters under
\* the names given
OtherFile(a, prefix, keys) ==
    LET full == [model_state_dict |-> [prefix |-> prefix, params |-> a.weights],
                 q_network_state_dict |-> [prefix |-> prefix, params |-> a.weights],
                 optimizer_state_dict |-> OptimizerStateDict(a),
                 wins |-> a.wins,
                 games_played |-> a.games_played,
                 total_reward |-> a.total_reward]
    IN  [k \in keys |-> full[k]]

CkInit ==
    /\ ck_pc = "new"
    /\ ck_src \in SourceAgents
    /\ ck_file = <<>>
    /\ ck_saved = FALSE
    /\ ck_agent \in LoadingAgents
    /\ ck_before = NoAgent
    /\ ck_reset = FALSE
    /\ ck_raised = "none"

\* save_model of the saving Agent
CkSave ==
    /\ ck_pc = "new"
    /\ ck_file' = SaveModel(ck_src)
    /\ ck_saved' = TRUE
    /\ ck_pc' = "file"
    /\ UNCHANGED <<ck_src, ck_agent, ck_before, ck_reset, ck_raised>>

\* a file of another origin (tests/test_bot.py 6-22: torch.load returns a
\* dictionary of two keys)
CkOtherFile ==
    /\ ck_pc = "new"
    /\ \E prefix \in {"actor_critic", "layers", "network"},
          keys \in SUBSET CheckpointKeys :
          ck_file' = OtherFile(ck_src, prefix, keys)
    /\ ck_saved' = FALSE
    /\ ck_pc' = "file"
    /\ UNCHANGED <<ck_src, ck_agent, ck_before, ck_reset, ck_raised>>

\* load_model on the loading Agent
CkLoaded(reset_stats) ==
    LET out == LoadModel(ck_agent, ck_file, reset_stats)
    IN  /\ ck_before' = ck_agent
        /\ ck_agent' = out.agent
        /\ ck_raised' = out.raised
        /\ ck_reset' = reset_stats
        /\ ck_pc' = "loaded"
        /\ UNCHANGED <<ck_src, ck_file, ck_saved>>

CkLoad ==
    /\ ck_pc = "file"
    /\ \E reset_stats \in BOOLEAN :
          /\ LoadModel(ck_agent, ck_file, reset_stats).raised = "none"
          /\ CkLoaded(reset_stats)

CkLoadRaises ==
    /\ ck_pc = "file"
    /\ \E reset_stats \in BOOLEAN :
          /\ LoadModel(ck_agent, ck_file, reset_stats).raised # "none"
          /\ CkLoaded(reset_stats)

CkFrame ==
    UNCHANGED <<envVars, stepVars, gvaVars, sendVars, epVars, curVars, botVars,
                closeVars, rsVars, stVars, acVars, pnVars,
                ehVars, adVars, trVars, cbVars, tnVars>>

InitCheckpoint ==
    /\ TnIdle
    /\ CbIdle
    /\ TrIdle
    /\ AdIdle
    /\ EhIdle
    /\ PnIdle
    /\ AcIdle
    /\ StIdle
    /\ RsIdle
    /\ game_state = NoneState
    /\ EnvFresh
    /\ StepIdle
    /\ GvaIdle
    /\ SendIdle
    /\ EpIdle
    /\ CurIdle
    /\ BotIdle
    /\ CloseIdle
    /\ CkInit

NextCheckpoint ==
    \/ CkSave /\ CkFrame
    \/ CkOtherFile /\ CkFrame
    \/ CkLoad /\ CkFrame
    \/ CkLoadRaises /\ CkFrame

SpecCheckpoint == InitCheckpoint /\ [][NextCheckpoint]_vars

\* the checkpoint holds the parameters of the other Agent type only
WrongSchemaOnly(type, checkpoint) ==
    /\ OtherKey(type) \in DOMAIN checkpoint
    /\ OwnKey(type) \notin DOMAIN checkpoint

\* C18: loading a checkpoint that holds only the other type's parameters
\* raises ValueError and leaves the Agent (parameters, optimizer state and
\* the three counters) as it was; a checkpoint with neither key raises
\* KeyError instead.
C18_WrongSchemaRaisesValueError ==
    ck_pc = "loaded" =>
        /\ WrongSchemaOnly(ck_before.type, ck_file) =>
              /\ ck_raised = "ValueError"
              /\ ck_agent = ck_before
        /\ (OwnKey(ck_before.type) \notin DOMAIN ck_file
            /\ OtherKey(ck_before.type) \notin DOMAIN ck_file) =>
              ck_raised = "KeyError"

\* a DQN-only checkpoint from a trained Agent was loaded into a GameBot that
\* has played, and a PPO-only one into a DQNBot
C18_Witness ==
    /\ ck_pc = "loaded"
    /\ WrongSchemaOnly(ck_before.type, ck_file)
    /\ "optimizer_state_dict" \in DOMAIN ck_file
    /\ "wins" \in DOMAIN ck_file
    /\ ck_file["wins"] # ck_before.wins
    /\ ck_file[OtherKey(ck_before.type)].params # ck_before.weights
    /\ ck_raised = "ValueError"
    /\ ck_before.wins > 0

\* C19: a checkpoint written by save_model and loaded into an Agent of the
\* same type installs the saved parameters; with reset_stats = False the
\* three counters are those of the saving Agent, with reset_stats = True
\* they are zero.
C19_RoundTrip ==
    (ck_pc = "loaded" /\ ck_saved /\ ck_before.type = ck_src.type) =>
        /\ ck_raised = "none"
        /\ ck_agent.weights = ck_src.weights
        /\ ~ck_reset =>
              /\ ck_agent.wins = ck_src.wins
              /\ ck_agent.games_played = ck_src.games_played
              /\ ck_agent.total_reward = ck_src.total_reward
        /\ ck_reset =>
              /\ ck_agent.wins = 0
              /\ ck_agent.games_played = 0
              /\ ck_agent.total_reward = 0

\* a fresh GameBot loaded, without reset, the checkpoint of a GameBot whose
\* parameters and counters differ from its own
C19_Witness ==
    /\ ck_pc = "loaded"
    /\ ck_saved
    /\ ~ck_reset
    /\ ck_before.type = "GameBot"
    /\ ck_src.type = "GameBot"
    /\ ck_before.wins = 0
    /\ ck_src.wins > 0
    /\ ck_src.games_played > 0
    /\ ck_src.total_reward > 0
    /\ ck_src.weights # ck_before.weights
    /\ ck_agent.wins = ck_src.wins
    /\ ck_agent.weights = ck_src.weights

\* ======================================================================
\* close (environment.py 1156-1166) next to send_command (352-402).  The
\* client calls close between two calls of send_command; node_process is
\* None ("none") or the handle of a process that is running or has exited.
\* ======================================================================

\* a close that would leave the handle in place
HandleKept(handle) == handle

\* 1164-1166, finally: self.node_process = None
HandleDropped(handle) == "none"

CloseInit ==
    /\ close_pc = "idle"
    /\ signals = <<>>
    /\ wait_expired = FALSE
    /\ calls_at_close = 0
    /\ stdin_at_close = 0

\* close returns: what the history records at that point
CloseReturns ==
    /\ close_pc' = "closed"
    /\ calls_at_close' = IF close_pc = "closed" THEN calls_at_close ELSE ncalls
    /\ stdin_at_close' = IF close_pc = "closed" THEN stdin_at_close ELSE Len(stdin_log)

\* 1158: if self.node_process is false, close does nothing
CloseNoProcess ==
    /\ close_pc \in {"idle", "closed"}
    /\ send_pc \in {"idle", "returned"}
    /\ node_process = "none"
    /\ CloseReturns
    /\ UNCHANGED <<signals, wait_expired, sendVars>>

\* 1158-1161: terminate() is sent and wait(timeout=5) begins
CloseTerminate ==
    /\ close_pc = "idle"
    /\ send_pc \in {"idle", "returned"}
    /\ node_process # "none"
    /\ signals' = Append(signals, "terminate")
    /\ close_pc' = "waiting"
    /\ UNCHANGED <<wait_expired, calls_at_close, stdin_at_close, sendVars>>

\* 1161, 1164-1166: the process has exited, or exits within the wait
CloseWaitExits ==
    /\ close_pc = "waiting"
    /\ node_process' = HandleDropped(node_process)
    /\ CloseReturns
    /\ UNCHANGED <<signals, wait_expired, stdout_buf, stdin_log, send_pc, polls,
                   send_result, ncalls, lines_read, json_skipped, node_at_call,
                   write_failed, answered>>

\* 1162-1166: the wait raises TimeoutExpired, kill() is sent
CloseWaitExpires ==
    /\ close_pc = "waiting"
    /\ node_process = "running"
    /\ wait_expired' = TRUE
    /\ signals' = Append(signals, "kill")
    /\ node_process' = HandleDropped(node_process)
    /\ CloseReturns
    /\ UNCHANGED <<stdout_buf, stdin_log, send_pc, polls, send_result, ncalls,
                   lines_read, json_skipped, node_at_call, write_failed,
                   answered>>

\* send_command is not called while close runs
CloseSendCommandCall ==
    /\ close_pc # "waiting"
    /\ SendCommandCall
    /\ UNCHANGED closeVars

CloseFrame ==
    UNCHANGED <<envVars, stepVars, gvaVars, epVars, curVars, botVars, ckVars,
                rsVars, stVars, acVars, pnVars, ehVars,
                adVars, trVars, cbVars, tnVars>>

InitClose ==
    /\ TnIdle
    /\ CbIdle
    /\ TrIdle
    /\ AdIdle
    /\ EhIdle
    /\ PnIdle
    /\ AcIdle
    /\ StIdle
    /\ RsIdle
    /\ game_state = NoneState
    /\ EnvFresh
    /\ StepIdle
    /\ GvaIdle
    /\ SendInit
    /\ EpIdle
    /\ CurIdle
    /\ BotIdle
    /\ CkIdle
    /\ CloseInit

NextClose ==
    \/ CloseSendCommandCall /\ CloseFrame
    \/ PollNothing /\ UNCHANGED closeVars /\ CloseFrame
    \/ PollReadError /\ UNCHANGED closeVars /\ CloseFrame
    \/ PollLine /\ UNCHANGED closeVars /\ CloseFrame
    \/ PollExhausted /\ UNCHANGED closeVars /\ CloseFrame
    \/ EngineWrites /\ UNCHANGED closeVars /\ CloseFrame
    \/ EngineExits /\ UNCHANGED closeVars /\ CloseFrame
    \/ CloseNoProcess /\ CloseFrame
    \/ CloseTerminate /\ CloseFrame
    \/ CloseWaitExits /\ CloseFrame
    \/ CloseWaitExpires /\ CloseFrame

SpecClose == InitClose /\ [][NextClose]_vars

\* C20: once close has returned node_process is None, whether the process
\* exited within the wait or not; kill is sent only after terminate and a
\* wait that expired; and a send_command called afterwards returns the
\* not-started error object and writes nothing to any process.
C20_CloseLeavesNoProcess ==
    /\ close_pc = "closed" =>
          /\ node_process = "none"
          /\ Len(stdin_log) = stdin_at_close
          /\ (ncalls > calls_at_close /\ send_pc = "returned") =>
                send_result = ErrorObject("Game process not started")
          /\ (ncalls > calls_at_close) => send_pc = "returned"
    /\ "kill" \in Range(signals) =>
          /\ signals = <<"terminate", "kill">>
          /\ wait_expired

\* close killed a process that did not exit within the wait, after commands
\* had been written to it, and send_command was called afterwards
C20_Witness ==
    /\ close_pc = "closed"
    /\ signals = <<"terminate", "kill">>
    /\ stdin_at_close > 0
    /\ ncalls > calls_at_close
    /\ send_pc = "returned"
    /\ send_result = ErrorObject("Game process not started")

\* ---- bounds
MaxResets == 1           \* calls of reset

\* ======================================================================
\* reset and start_node_game (environment.py 275-350, 392-431) on top of
\* send_command.  A JSON line with re = 0 is the engine's {"ready": true},
\* one with re = -1 a JSON object that answers no command and carries no
\* ready flag.  proc_gen numbers the processes spawned.
\* ======================================================================
ReadyLine == JsonLine(0)
PlainJsonLine == JsonLine(-1)

\* response.get('ready') of a parsed line
HasReady(line) == line.re = 0

\* a test that takes any parsed JSON object for the ready signal
AnyJsonIsReady(line) == TRUE

\* 319-326: the line starts with '{', parses, and carries ready
IsReadySignal(line) == HasReady(line)

\* what reset reads and writes of the environment
EnvSnapshot ==
    [game_state |-> game_state, move_history |-> move_history,
     winningTeam |-> winningTeam,
     pending_penalties |-> pending_penalties,
     reward_event_counts |-> reward_event_counts,
     reward_event_totals |-> reward_event_totals,
     reward_bonus_totals |-> reward_bonus_totals,
     completion_delay_turns |-> completion_delay_turns,
     completion_delay_growth |-> completion_delay_growth,
     next_penalty_check |-> next_penalty_check,
     no_progress_steps |-> no_progress_steps,
     last_step_info |-> last_step_info]

\* an environment as __init__ leaves it (environment.py 60-189)
RsEnvFresh ==
    /\ game_state = NoneState
    /\ EnvFresh
    /\ move_history = <<>>
    /\ winningTeam = "none"
    /\ next_penalty_check = PENALTY_CHECK_INTERVAL
    /\ completion_delay_growth = FreshGrowth
    /\ no_progress_steps = FreshNoProgress

\* an environment after an episode in which team 0 won: moves recorded,
\* events and bonuses tallied, a penalty pending, one periodic check passed,
\* a piece completed (growth rate times 0.99, line 1099), a stalled seat
RsEnvUsed ==
    /\ game_state = [none |-> FALSE, hands |-> <<2, 1, 0, 1>>, gameEnded |-> TRUE,
                     ver |-> 0]
    /\ move_history = <<1>>
    /\ winningTeam = "team0"
    /\ pending_penalties = [p \in Seats |-> IF p = 1 THEN -TeamPenalty ELSE 0]
    /\ reward_event_counts = Add(ZeroEvents, "valid_move", 1)
    /\ reward_event_totals = Add(ZeroEvents, "valid_move", -5)
    /\ reward_bonus_totals = [win_bonus |-> WIN_BONUS,
                              final_move_bonus |-> FINAL_MOVE_BONUS]
    /\ completion_delay_turns = <<0, 1>>
    /\ last_step_info = [win_bonus |-> WIN_BONUS,
                         final_move_bonus |-> FINAL_MOVE_BONUS]
    /\ next_penalty_check = 2 * PENALTY_CHECK_INTERVAL
    /\ completion_delay_growth =
          <<(COMPLETION_DELAY_GROWTH * 99) \div 100, COMPLETION_DELAY_GROWTH>>
    /\ no_progress_steps = [FreshNoProgress EXCEPT ![3].general = 1]

RsInit ==
    /\ rs_pc = "idle"
    /\ start_polls = 0
    /\ start_result = "unset"
    /\ ready_read = FALSE
    /\ start_dropped = FALSE
    /\ ready_printed = FALSE
    /\ proc_gen = IF node_process = "none" THEN 0 ELSE 1
    /\ timeout_gen = 0
    /\ rs_timeout_gen = 0
    /\ rs_cmd_gen = 0
    /\ rs_node_at_call = "none"
    /\ rs_started = FALSE
    /\ rs_before = <<>>
    /\ rs_return = "unset"
    /\ rs_success = FALSE
    /\ rs_reply = "none"
    /\ resets = 0

\* what the actions of send_command and of the engine leave alone
RsKept ==
    UNCHANGED <<envVars, move_history, next_penalty_check,
                completion_delay_growth, no_progress_steps, winningTeam>>

RsCallKept ==
    UNCHANGED <<rs_pc, start_polls, start_result, ready_read, start_dropped, ready_printed,
                proc_gen, rs_timeout_gen, rs_cmd_gen, rs_node_at_call,
                rs_started, rs_before, rs_return, rs_success, rs_reply, resets>>

\* a test that starts a process only when there is no handle
OnlyWhenMissing(handle) == handle = "none"

\* reset 399: if not self.node_process or self.node_process.poll() is not None
NeedsStart(handle) == handle \in {"none", "exited"}

\* reset is called
ResetCall ==
    /\ rs_pc \in {"idle", "done"}
    /\ send_pc \in {"idle", "returned"}
    /\ resets < MaxResets
    /\ resets' = resets + 1
    /\ rs_before' = EnvSnapshot
    /\ rs_node_at_call' = node_process
    /\ rs_timeout_gen' = timeout_gen
    /\ rs_cmd_gen' = 0
    /\ rs_started' = NeedsStart(node_process)
    /\ rs_return' = "unset"
    /\ rs_success' = FALSE
    /\ rs_reply' = "none"
    /\ start_polls' = 0
    /\ start_result' = "unset"
    /\ ready_read' = FALSE
    /\ start_dropped' = FALSE
    /\ rs_pc' = IF NeedsStart(node_process) THEN "spawn" ELSE "send"
    \* the locals and the result of the last send_command are gone
    /\ send_pc' = "idle"
    /\ polls' = 0
    /\ send_result' = NoResult
    /\ lines_read' = <<>>
    /\ json_skipped' = FALSE
    /\ node_at_call' = "none"
    /\ write_failed' = FALSE
    /\ UNCHANGED <<node_process, stdout_buf, stdin_log, ncalls, answered,
                   ready_printed, proc_gen, timeout_gen>>
    /\ RsKept

\* start_node_game 277-307 raises before or in Popen: the except at 348
\* returns False, and reset returns np.zeros(self.state_size)
StartSpawnFails ==
    /\ rs_pc = "spawn"
    /\ start_result' = "false"
    /\ rs_return' = "zeros"
    /\ rs_pc' = "done"
    /\ UNCHANGED <<sendVars, start_polls, ready_read, start_dropped, ready_printed, proc_gen,
                   timeout_gen, rs_timeout_gen, rs_cmd_gen, rs_node_at_call,
                   rs_started, rs_before, rs_success, rs_reply, resets>>
    /\ RsKept

\* start_node_game 277-310: a new process with new pipes, the poll loop begins
StartSpawn ==
    /\ rs_pc = "spawn"
    /\ node_process' = "running"
    /\ stdout_buf' = <<>>
    /\ stdin_log' = <<>>
    /\ answered' = {}
    /\ proc_gen' = proc_gen + 1
    /\ ready_printed' = FALSE
    /\ start_polls' = 0
    /\ rs_pc' = "starting"
    /\ UNCHANGED <<send_pc, polls, send_result, ncalls, lines_read, json_skipped,
                   node_at_call, write_failed, start_result, ready_read, start_dropped,
                   timeout_gen, rs_timeout_gen, rs_cmd_gen, rs_node_at_call,
                   rs_started, rs_before, rs_return, rs_success, rs_reply,
                   resets>>
    /\ RsKept

\* the end of one pass of the poll loop, 332-335: a process found exited
\* makes start_node_game return False, and reset return zeros.  start_polls
\* is the loop variable: it is 0 again once start_node_game has returned.
StartPassEnds ==
    IF node_process = "exited"
    THEN /\ start_result' = "false"
         /\ rs_return' = "zeros"
         /\ rs_pc' = "done"
         /\ start_polls' = 0
    ELSE /\ start_polls' = start_polls + 1
         /\ UNCHANGED <<start_result, rs_return, rs_pc>>

\* 312-330: select found nothing, readline returned '', or one of them
\* raised (except: pass)
StartPollNothing ==
    /\ rs_pc = "starting"
    /\ start_polls < StartPolls
    /\ StartPassEnds
    /\ UNCHANGED <<sendVars, ready_read, start_dropped, ready_printed, proc_gen, timeout_gen,
                   rs_timeout_gen, rs_cmd_gen, rs_node_at_call, rs_started,
                   rs_before, rs_success, rs_reply, resets>>
    /\ RsKept

\* 312-330: a line is read.  The ready signal ends the loop; a line that
\* starts with '{' and does not parse continues with the next pass; any
\* other line is dropped and the pass ends as usual.
StartPollLine ==
    /\ rs_pc = "starting"
    /\ start_polls < StartPolls
    /\ stdout_buf # <<>>
    /\ LET line == Head(stdout_buf)
       IN  /\ stdout_buf' = Tail(stdout_buf)
           /\ IF ParsesAsJson(line) /\ IsReadySignal(line)
              THEN /\ ready_read' = HasReady(line)
                   /\ start_result' = "true"
                   /\ rs_pc' = "send"
                   /\ start_polls' = 0
                   /\ UNCHANGED <<rs_return, start_dropped>>
              ELSE IF line.kind = "bad"
              THEN /\ start_polls' = start_polls + 1
                   /\ start_dropped' = TRUE
                   /\ UNCHANGED <<ready_read, start_result, rs_pc, rs_return>>
              ELSE /\ StartPassEnds
                   /\ start_dropped' = TRUE
                   /\ UNCHANGED ready_read
    /\ UNCHANGED <<node_process, stdin_log, send_pc, polls, send_result, ncalls,
                   lines_read, json_skipped, node_at_call, write_failed,
                   answered, ready_printed, proc_gen, timeout_gen,
                   rs_timeout_gen, rs_cmd_gen, rs_node_at_call, rs_started,
                   rs_before, rs_success, rs_reply, resets>>
    /\ RsKept

\* 337-339: the polls are used up without the ready signal
StartExhausted ==
    /\ rs_pc = "starting"
    /\ start_polls = StartPolls
    /\ start_polls' = 0
    /\ start_result' = "false"
    /\ rs_return' = "zeros"
    /\ rs_pc' = "done"
    /\ UNCHANGED <<sendVars, ready_read, start_dropped, ready_printed, proc_gen,
                   timeout_gen, rs_timeout_gen, rs_cmd_gen, rs_node_at_call,
                   rs_started, rs_before, rs_success, rs_reply, resets>>
    /\ RsKept

\* the engine prints its ready line, or before it a JSON object without a
\* ready flag
EngineStarts ==
    /\ node_process = "running"
    /\ ~ready_printed
    /\ Len(stdout_buf) < MaxPipe
    /\ \/ /\ stdout_buf' = Append(stdout_buf, ReadyLine)
          /\ ready_printed' = TRUE
       \/ /\ stdout_buf' = Append(stdout_buf, PlainJsonLine)
          /\ UNCHANGED ready_printed
    /\ UNCHANGED <<node_process, stdin_log, send_pc, polls, send_result, ncalls,
                   lines_read, json_skipped, node_at_call, write_failed,
                   answered, rs_pc, start_polls, start_result, ready_read, start_dropped,
                   proc_gen, timeout_gen, rs_timeout_gen, rs_cmd_gen,
                   rs_node_at_call, rs_started, rs_before, rs_return,
                   rs_success, rs_reply, resets>>
    /\ RsKept

\* reset 403-407: send_command(command) is called
ResetSend ==
    /\ rs_pc = "send"
    /\ SendCommandCall
    /\ rs_cmd_gen' = IF send_pc' = "polling" THEN proc_gen ELSE 0
    /\ rs_pc' = "sending"
    /\ UNCHANGED <<start_polls, start_result, ready_read, start_dropped, ready_printed,
                   proc_gen, timeout_gen, rs_timeout_gen, rs_node_at_call,
                   rs_started, rs_before, rs_return, rs_success, rs_reply,
                   resets>>
    /\ RsKept

\* response.get('success') can be true only for a parsed object that
\* answers a command
CanSucceed(result) == result.error = "" /\ result.re >= 1

\* get_state(0) is np.zeros(state_size) when game_state is None
ReturnedState(gs) == IF gs.none THEN "zeros" ELSE "state"

\* reset 408-431 with a reply carrying success: game_state replaced,
\* move_history cleared, reset_reward_events (1185-1202), the penalties, the
\* next check and the delay turns set again
ResetSucceeds ==
    /\ rs_pc = "sending"
    /\ send_pc = "returned"
    /\ CanSucceed(send_result)
    /\ \E winners \in {"none", "team0", "team1"} :
          /\ rs_reply' = winners
          /\ winningTeam' = winners
    /\ game_state' = ResetState
    /\ move_history' = <<>>
    /\ reward_event_counts' = ZeroEvents
    /\ reward_event_totals' = ZeroEvents
    /\ reward_bonus_totals' = ZeroBonus
    /\ pending_penalties' = [p \in Seats |-> 0]
    /\ next_penalty_check' = PENALTY_CHECK_INTERVAL
    /\ completion_delay_turns' = <<0, 0>>
    /\ no_progress_steps' = FreshNoProgress
    /\ last_step_info' = ZeroBonus
    /\ rs_success' = TRUE
    /\ rs_return' = "state"
    /\ rs_pc' = "done"
    /\ UNCHANGED <<sendVars, completion_delay_growth, start_polls, start_result,
                   ready_read, start_dropped, ready_printed, proc_gen, timeout_gen,
                   rs_timeout_gen, rs_cmd_gen, rs_node_at_call, rs_started,
                   rs_before, resets>>

\* reset 429-431 with any other reply: "Game reset failed" is logged
ResetFails ==
    /\ rs_pc = "sending"
    /\ send_pc = "returned"
    /\ rs_success' = FALSE
    /\ rs_return' = ReturnedState(game_state)
    /\ rs_pc' = "done"
    /\ UNCHANGED <<sendVars, start_polls, start_result, ready_read, start_dropped,
                   ready_printed, proc_gen, timeout_gen, rs_timeout_gen,
                   rs_cmd_gen, rs_node_at_call, rs_started, rs_before, rs_reply,
                   resets>>
    /\ RsKept

\* send_command called by step or get_valid_actions between two resets
RsOtherCommand ==
    /\ rs_pc \in {"idle", "done"}
    /\ SendCommandCall
    /\ UNCHANGED timeout_gen
    /\ RsCallKept
    /\ RsKept

\* send_command times out; the process that printed nothing and still runs
\* is remembered
RsPollExhausted ==
    /\ PollExhausted
    /\ timeout_gen' = IF rs_pc # "sending" /\ lines_read = <<>>
                         /\ node_process = "running"
                      THEN proc_gen ELSE timeout_gen
    /\ RsCallKept
    /\ RsKept

RsFrame ==
    UNCHANGED <<stepVars, gvaVars, epVars, curVars, botVars, ckVars, closeVars,
                stVars, acVars, pnVars, ehVars, adVars,
                trVars, cbVars, tnVars>>

InitReset ==
    /\ TnIdle
    /\ CbIdle
    /\ TrIdle
    /\ AdIdle
    /\ EhIdle
    /\ PnIdle
    /\ AcIdle
    /\ StIdle
    /\ RsEnvFresh \/ RsEnvUsed
    /\ StepIdle
    /\ GvaIdle
    /\ SendInit
    /\ EpIdle
    /\ CurIdle
    /\ BotIdle
    /\ CkIdle
    /\ CloseIdle
    /\ RsInit

NextReset ==
    \/ ResetCall /\ RsFrame
    \/ StartSpawnFails /\ RsFrame
    \/ StartSpawn /\ RsFrame
    \/ StartPollNothing /\ RsFrame
    \/ StartPollLine /\ RsFrame
    \/ StartExhausted /\ RsFrame
    \/ EngineStarts /\ RsFrame
    \/ ResetSend /\ RsFrame
    \/ ResetSucceeds /\ RsFrame
    \/ ResetFails /\ RsFrame
    \/ RsOtherCommand /\ RsFrame
    \/ RsPollExhausted /\ RsFrame
    \/ PollNothing /\ UNCHANGED timeout_gen /\ RsCallKept /\ RsKept /\ RsFrame
    \/ PollReadError /\ UNCHANGED timeout_gen /\ RsCallKept /\ RsKept /\ RsFrame
    \/ PollLine /\ UNCHANGED timeout_gen /\ RsCallKept /\ RsKept /\ RsFrame
    \/ EngineWrites /\ UNCHANGED timeout_gen /\ RsCallKept /\ RsKept /\ RsFrame
    \/ EngineExits /\ UNCHANGED timeout_gen /\ RsCallKept /\ RsKept /\ RsFrame

SpecReset == InitReset /\ [][NextReset]_vars

\* C21: a reset that follows a send_command which timed out on a process
\* that printed nothing writes its reset command to a process spawned after
\* that one.
C21_RestartAfterTimeout ==
    (rs_cmd_gen # 0 /\ rs_timeout_gen # 0) => rs_cmd_gen > rs_timeout_gen

\* ---- start_node_game alone: reset up to the return of start_node_game
InitStart ==
    /\ TnIdle
    /\ CbIdle
    /\ TrIdle
    /\ AdIdle
    /\ EhIdle
    /\ PnIdle
    /\ AcIdle
    /\ StIdle
    /\ RsEnvFresh
    /\ StepIdle
    /\ GvaIdle
    /\ SendInit
    /\ EpIdle
    /\ CurIdle
    /\ BotIdle
    /\ CkIdle
    /\ CloseIdle
    /\ RsInit

NextStart ==
    \/ ResetCall /\ RsFrame
    \/ StartSpawnFails /\ RsFrame
    \/ StartSpawn /\ RsFrame
    \/ StartPollNothing /\ RsFrame
    \/ StartPollLine /\ RsFrame
    \/ StartExhausted /\ RsFrame
    \/ EngineStarts /\ RsFrame
    \/ EngineWrites /\ UNCHANGED timeout_gen /\ RsCallKept /\ RsKept /\ RsFrame
    \/ EngineExits /\ UNCHANGED timeout_gen /\ RsCallKept /\ RsKept /\ RsFrame

SpecStart == InitStart /\ [][NextStart]_vars

\* the poll loop of start_node_game is left
StartLoopLeft == rs_pc = "starting" /\ rs_pc' # "starting"

\* C22: start_node_game makes at most 50 polls; it leaves its poll loop with
\* True only by reading a JSON line that carries ready, within the 50 polls,
\* and otherwise with False, and then the process has exited or the 50 polls
\* are used up; once they are used up it returns False; a pass that ends
\* with the process exited and goes on to the next pass read a line starting
\* with '{' that did not parse.
C22_ReadyWithinBoundedPolls ==
    /\ [](start_polls <= StartPolls)
    /\ [][StartLoopLeft =>
            \/ /\ start_result' = "true"
               /\ start_polls < StartPolls
               /\ stdout_buf # <<>>
               /\ Head(stdout_buf) = ReadyLine
            \/ /\ start_result' = "false"
               /\ node_process = "exited" \/ start_polls = StartPolls]_vars
    /\ [][(rs_pc = "starting" /\ start_polls = StartPolls
               /\ start_polls' # start_polls) => start_result' = "false"]_vars
    /\ [][(rs_pc = "starting" /\ node_process = "exited"
               /\ start_polls' = start_polls + 1) =>
            (stdout_buf # <<>> /\ Head(stdout_buf) = BadLine)]_vars

\* start_node_game returned True for a process started in place of one that
\* had exited, after dropping a line that was not the ready signal
C22_Witness ==
    /\ rs_pc = "send"
    /\ start_result = "true"
    /\ ready_read
    /\ start_dropped
    /\ rs_node_at_call = "exited"

\* C23: while send_command waits, every line it has read was not a JSON
\* object; a pass that reads a line which is not JSON or does not parse
\* leaves it waiting with nothing returned; and the object it returns is
\* parsed from the line it read last, the first JSON object among the lines
\* it read.
C23_FirstJsonLineReturned ==
    /\ [](send_pc = "polling" =>
            /\ ~json_skipped
            /\ \A i \in 1..Len(lines_read) : ~IsJson(lines_read[i]))
    /\ [](send_pc = "returned" /\ send_result.error = "" =>
            /\ ~json_skipped
            /\ lines_read # <<>>
            /\ IsJson(lines_read[Len(lines_read)])
            /\ send_result = ParsedObject(lines_read[Len(lines_read)])
            /\ \A i \in 1..(Len(lines_read) - 1) : ~IsJson(lines_read[i]))
    /\ [][(send_pc = "polling" /\ stdout_buf # <<>>
               /\ stdout_buf' = Tail(stdout_buf) /\ ~IsJson(Head(stdout_buf))) =>
            (send_pc' = "polling" /\ send_result' = NoResult)]_vars

\* the reply to the command is returned after a malformed line was skipped
C23_Witness ==
    /\ send_pc = "returned"
    /\ send_result = ParsedObject(JsonLine(1))
    /\ lines_read = <<BadLine, JsonLine(1)>>
    /\ polls = 2

\* ---- reset alone: every send_command is the one reset makes
NextResetOnly ==
    \/ ResetCall /\ RsFrame
    \/ StartSpawnFails /\ RsFrame
    \/ StartSpawn /\ RsFrame
    \/ StartPollNothing /\ RsFrame
    \/ StartPollLine /\ RsFrame
    \/ StartExhausted /\ RsFrame
    \/ EngineStarts /\ RsFrame
    \/ ResetSend /\ RsFrame
    \/ ResetSucceeds /\ RsFrame
    \/ ResetFails /\ RsFrame
    \/ RsPollExhausted /\ RsFrame
    \/ PollNothing /\ UNCHANGED timeout_gen /\ RsCallKept /\ RsKept /\ RsFrame
    \/ PollReadError /\ UNCHANGED timeout_gen /\ RsCallKept /\ RsKept /\ RsFrame
    \/ PollLine /\ UNCHANGED timeout_gen /\ RsCallKept /\ RsKept /\ RsFrame
    \/ EngineWrites /\ UNCHANGED timeout_gen /\ RsCallKept /\ RsKept /\ RsFrame
    \/ EngineExits /\ UNCHANGED timeout_gen /\ RsCallKept /\ RsKept /\ RsFrame

InitResetUsed ==
    /\ TnIdle
    /\ CbIdle
    /\ TrIdle
    /\ AdIdle
    /\ EhIdle
    /\ PnIdle
    /\ AcIdle
    /\ StIdle
    /\ RsEnvUsed
    /\ StepIdle
    /\ GvaIdle
    /\ SendInit
    /\ EpIdle
    /\ CurIdle
    /\ BotIdle
    /\ CkIdle
    /\ CloseIdle
    /\ RsInit

SpecResetOnly == InitResetUsed /\ [][NextResetOnly]_vars

\* C24: a call of send_command leaves the process handle and the number of
\* processes spawned as they were; a process is spawned only inside a reset
\* that found no process or an exited one, and every such reset calls
\* start_node_game, no other does.  When start_node_game returned False,
\* reset has sent nothing, returns the zero vector and the environment is as
\* it was before the call; when reset returned without a reply carrying
\* success, game_state and move_history are as they were before the call.
C24_LazyStartAndFailedReset ==
    /\ [][ncalls' # ncalls =>
            (node_process' = node_process /\ proc_gen' = proc_gen)]_vars
    /\ [][proc_gen' # proc_gen =>
            (rs_pc = "spawn" /\ rs_node_at_call \in {"none", "exited"})]_vars
    /\ [](resets > 0 => (rs_started <=> rs_node_at_call \in {"none", "exited"}))
    /\ [](rs_cmd_gen # 0 /\ rs_node_at_call \in {"none", "exited"} =>
            start_result = "true")
    /\ [](start_result = "false" =>
            /\ rs_pc = "done"
            /\ send_pc = "idle"
            /\ rs_cmd_gen = 0
            /\ rs_return = "zeros"
            /\ EnvSnapshot = rs_before)
    /\ [](rs_pc = "done" /\ ~rs_success =>
            /\ game_state = rs_before.game_state
            /\ move_history = rs_before.move_history)

\* after a finished game the process has exited, the start of a new one
\* fails in its poll loop, and reset returns zeros
C24_Witness ==
    /\ rs_pc = "done"
    /\ rs_node_at_call = "exited"
    /\ proc_gen = 2
    /\ start_result = "false"
    /\ rs_return = "zeros"
    /\ game_state.gameEnded
    /\ move_history = <<1>>

\* C25: after a reset whose reply carried success, game_state is the
\* engine's with gameEnded false, winningTeam is the reply's, and the
\* per-episode reward state is as __init__ leaves it: no moves recorded, all
\* event counts, totals and bonus totals zero, no pending penalty, the next
\* check at 60, delay turns zero, the delay growth rates at
\* COMPLETION_DELAY_GROWTH, the no-progress counters zero.
C25_SuccessfulResetIsFresh ==
    (rs_pc = "done" /\ rs_success) =>
        /\ game_state = ResetState
        /\ ~game_state.gameEnded
        /\ winningTeam = rs_reply
        /\ move_history = <<>>
        /\ reward_event_counts = ZeroEvents
        /\ reward_event_totals = ZeroEvents
        /\ reward_bonus_totals = ZeroBonus
        /\ pending_penalties = [p \in Seats |-> 0]
        /\ next_penalty_check = PENALTY_CHECK_INTERVAL
        /\ completion_delay_turns = <<0, 0>>
        /\ completion_delay_growth = FreshGrowth
        /\ no_progress_steps = FreshNoProgress

\* ======================================================================
\* step and the cached state (environment.py 713, 736-754): the keys of
\* game_state written besides gameEnded, and move_history
\* ======================================================================
\* what a move response can carry besides success, gameState and gameEnded
ResponseExtras ==
    [winners : {"none", "team1"}, lastMove : {0, 2}, stats : BOOLEAN]

\* 736-754 for the final response: with a gameState, winningTeam is
\* response.get('winningTeam'), 'stats' and 'statsSummary' are set when the
\* response has stats, and the lastMove of the new state, if any, is
\* appended to move_history; without one nothing is written
StepRecordsState ==
    IF response.kind # "unset" /\ response.hasState
    THEN \E x \in ResponseExtras :
            /\ resp_extra' = x
            /\ winningTeam' = x.winners
            /\ game_stats' = IF x.stats THEN "full" ELSE "absent"
            /\ move_history' = IF x.lastMove # 0
                                THEN Append(move_history, x.lastMove)
                                ELSE move_history
    ELSE UNCHANGED <<resp_extra, winningTeam, game_stats, move_history>>

\* what step never touches of the fields reset works on
StKept ==
    UNCHANGED <<next_penalty_check, completion_delay_growth, no_progress_steps,
                rs_pc, start_polls, start_result, ready_read, start_dropped,
                ready_printed, proc_gen, timeout_gen, rs_timeout_gen,
                rs_cmd_gen, rs_node_at_call, rs_started, rs_before, rs_return,
                rs_success, rs_reply, resets>>

\* the environment of Init, either with no move recorded or with one move
\* recorded and the stats of the reply that carried it cached
InitStepState ==
    /\ TnIdle
    /\ CbIdle
    /\ TrIdle
    /\ AdIdle
    /\ EhIdle
    /\ PnIdle
    /\ AcIdle
    /\ game_state \in StepStates
    /\ pending_penalties = [p \in Seats |-> 0]
    /\ completion_delay_turns = <<0, 0>>
    /\ reward_event_counts = ZeroEvents
    /\ reward_event_totals = ZeroEvents
    /\ reward_bonus_totals = ZeroBonus
    /\ last_step_info = ZeroBonus
    /\ StepInit
    /\ GvaIdle
    /\ SendIdle
    /\ EpIdle
    /\ CurIdle
    /\ BotIdle
    /\ CkIdle
    /\ CloseIdle
    /\ move_history \in IF game_state.none THEN {<<>>} ELSE {<<>>, <<1>>}
    /\ winningTeam = "none"
    /\ game_stats = IF move_history = <<>> THEN "absent" ELSE "full"
    /\ resp_extra = NoExtra
    /\ next_penalty_check = PENALTY_CHECK_INTERVAL
    /\ completion_delay_growth = FreshGrowth
    /\ no_progress_steps = FreshNoProgress
    /\ RsCallOff

StFrame ==
    UNCHANGED <<gvaVars, sendVars, epVars, curVars, botVars, ckVars, closeVars,
                acVars, pnVars, ehVars, adVars, trVars,
                cbVars, tnVars>>

NextStepState ==
    \/ StepBegin /\ UNCHANGED <<gvaVars, sendVars, epVars, managerVars>>
    \/ ValidationRejected /\ UNCHANGED <<gvaVars, sendVars, epVars, managerVars>>
    \/ MoveSucceeded /\ UNCHANGED <<gvaVars, sendVars, epVars, managerVars>>
    \/ MoveFailed /\ UNCHANGED <<gvaVars, sendVars, epVars, managerVars>>
    \/ DiscardAfterRejection /\ UNCHANGED <<gvaVars, sendVars, epVars, managerVars>>
    \/ DiscardAfterFailure /\ UNCHANGED <<gvaVars, sendVars, epVars, managerVars>>
    \/ StepFinish /\ StepRecordsState /\ StKept /\ StFrame

SpecStepState == InitStepState /\ [][NextStepState]_vars

\* the state a response carries, as it is cached after a state of version v
CarriedState(v, resp) ==
    [none |-> FALSE, hands |-> NewHands, gameEnded |-> resp.gameEnded,
     ver |-> v + 1]

\* C26: when step ends with a final response that carries a gameState,
\* whether the move succeeded or not, game_state is that state with
\* gameEnded and winningTeam as the response has them (and the stats keys as
\* the response has stats), and the lastMove of the state, if it has one, is
\* appended to move_history; when step ends otherwise, game_state, its
\* winningTeam and stats keys and move_history are as before; no other part
\* of step writes any of them.
C26_StateFollowsFinalResponse ==
    /\ [][(pc = "after" /\ pc' # "after") =>
            IF response.kind # "unset" /\ response.hasState
            THEN /\ game_state' = CarriedState(game_state.ver, response)
                 /\ winningTeam' = resp_extra'.winners
                 /\ game_stats' = (IF resp_extra'.stats THEN "full" ELSE "absent")
                 /\ move_history' = (IF resp_extra'.lastMove # 0
                                      THEN Append(move_history, resp_extra'.lastMove)
                                      ELSE move_history)
            ELSE UNCHANGED <<game_state, winningTeam, game_stats, move_history>>]_vars
    /\ [][pc # "after" =>
            UNCHANGED <<game_state, winningTeam, game_stats, move_history>>]_vars

\* a step whose final response reported failure and carried a state with a
\* lastMove: the state is cached and the move recorded after an earlier one
C26_Witness ==
    /\ pc = "returned"
    /\ response.kind = "move"
    /\ ~response.success
    /\ response.hasState
    /\ game_state.ver = 1
    /\ winningTeam = "team1"
    /\ move_history = <<1, 2>>

\* ======================================================================
\* train_episode and the statistics of the Agents (trainer.py 325, 352-366,
\* 448-470), one environment: the episode of SpecEpisode together with the
\* seating, game_state['winningTeam'], the outcome window and the counters
\* wins and games_played of the Agents
\* ======================================================================
\* the seatings tried here: the Agents in the order they were created, and
\* with the two teams exchanged
EpisodeSeatings ==
    {s \in Seatings : s[2] = s[0] + 2 /\ s[3] = s[1] + 2}

\* a team that lists only its first player
FirstListed(team) ==
    CASE team = "team0" -> {0}
      [] team = "team1" -> {1}
      [] OTHER -> {}

\* player.get('position') for the players of game_state['winningTeam']
TeamPositions(team) ==
    CASE team = "team0" -> {0, 2}
      [] team = "team1" -> {1, 3}
      [] OTHER -> {}

\* 461-467: self.bots[player_pos].wins += 1 for every listed position
WinsCredited(w, seating, team) ==
    [b \in DOMAIN w |->
       IF \E pos \in TeamPositions(team) : seating[pos] = b
       THEN w[b] + 1 ELSE w[b]]

\* 448-454: bot.games_played += 1 for every bot
GamesCounted(g) == [b \in DOMAIN g |-> g[b] + 1]

AcInit ==
    /\ seats = [p \in Seats |-> p + 1]
    /\ bot_wins = [b \in BotIds |-> 0]
    /\ bot_games_played = [b \in BotIds |-> 0]

\* what train_episode leaves alone here; the stage counters of the
\* curriculum are those of SpecSingle
AcFrame ==
    UNCHANGED <<botVars, ckVars, closeVars, stVars, pnVars, ehVars, adVars,
                trVars, cbVars, tnVars>>

AcKept ==
    /\ StKept
    /\ AcFrame
    /\ UNCHANGED move_history
    /\ UNCHANGED <<lane_pc, lane_rate, lane_level, lane_factor, stage_games,
                   level_reward_multiplier, games_played, env_pieces,
                   env_turn_limit, env_heavy_reward, env_win_bonus, rounds,
                   lane_seen, since_raise, raise_games, last_adjust, applied>>

\* 308-325: train_episode is called and shuffles the seating (187)
AcStart ==
    /\ TrainEpisodeStart
    /\ seats' \in EpisodeSeatings
    /\ UNCHANGED <<bot_wins, bot_games_played, recent_outcomes, winningTeam>>
    /\ AcKept

\* 341-342: env.reset; a reset that succeeded caches the reply's winningTeam
\* (environment.py 413), which for a new game is None
AcReset ==
    /\ ResetForEpisode
    /\ winningTeam' = IF game_state' = ResetState THEN "none" ELSE winningTeam
    /\ UNCHANGED <<seats, bot_wins, bot_games_played, recent_outcomes>>
    /\ AcKept

\* 352-366: the head of the loop, with the break on valid_actions == []
AcLoopHead ==
    /\ LoopHead
    /\ UNCHANGED <<seats, bot_wins, bot_games_played, recent_outcomes, winningTeam>>
    /\ AcKept

\* 371: env.step; a response with a gameState replaces the cached
\* winningTeam by its own (environment.py 740)
AcStep ==
    /\ EnvStepCall
    /\ IF game_state' # game_state
       THEN winningTeam' \in (IF game_state'.gameEnded THEN {"none", "team0", "team1"}
                              ELSE {"none"})
       ELSE UNCHANGED winningTeam
    /\ UNCHANGED <<seats, bot_wins, bot_games_played, recent_outcomes>>
    /\ AcKept

\* 437-470: after the loop, the statistics of the Agents and the outcome
\* pushed into the window, both read from the cached state
AcEnd ==
    /\ EpisodeEnd
    /\ IF game_state.none
       THEN UNCHANGED <<bot_wins, bot_games_played, recent_outcomes>>
       ELSE /\ bot_games_played' = GamesCounted(bot_games_played)
            /\ IF game_state.gameEnded
               THEN /\ recent_outcomes' =
                         AppendWindow(recent_outcomes,
                                      IF winningTeam # "none" THEN 1 ELSE 0)
                    /\ bot_wins' = WinsCredited(bot_wins, seats, winningTeam)
               ELSE /\ recent_outcomes' = AppendWindow(recent_outcomes, 0)
                    /\ UNCHANGED bot_wins
    /\ UNCHANGED <<seats, winningTeam>>
    /\ AcKept

AcEngineExits ==
    /\ EngineExitsInEpisode
    /\ UNCHANGED managerVars

InitAccount ==
    /\ TnIdle
    /\ CbIdle
    /\ TrIdle
    /\ AdIdle
    /\ EhIdle
    /\ PnIdle
    /\ game_state = NoneState
    /\ EnvFresh
    /\ StepIdle
    /\ GvaIdle
    /\ SendIdle
    /\ EpInit
    /\ CurIdle
    /\ BotIdle
    /\ CkIdle
    /\ CloseIdle
    /\ RsIdle
    /\ StIdle
    /\ AcInit

NextAccount ==
    \/ AcStart
    \/ AcReset
    \/ AcLoopHead
    \/ AcStep
    \/ AcEnd
    \/ AcEngineExits

SpecAccount == InitAccount /\ [][NextAccount]_vars

\* train_episode gets past its statistics
EpisodeAccounted == ep_pc = "ended" /\ ep_pc' = "finished"

LeftOnNoActions ==
    ep_pc = "ended" /\ ~reported_ended /\ LoopGuard(ep_step_count, max_steps)

\* C28: the head of the loop that finds no valid action leaves the loop
\* without a call of env.step; the episode that was left so, no response of
\* it having reported gameEnded, is then accounted for: train_episode gets
\* past its statistics, games_played of every Agent grows by 1 and the
\* outcome 0 is pushed into the window.
C28_NoActionsEpisodeCounted ==
    /\ [][(ep_pc = "loop" /\ ep_pc' = "ended") =>
            UNCHANGED <<steps_made, ep_step_count, game_state>>]_vars
    /\ [][(LeftOnNoActions /\ ep_pc' # "ended") =>
            /\ ep_pc' = "finished"
            /\ bot_games_played' = GamesCounted(bot_games_played)
            /\ recent_outcomes' = AppendWindow(recent_outcomes, 0)]_vars

\* ---- bounds
MaxPenaltySteps == 4     \* calls of step around a periodic check

\* ======================================================================
\* the periodic team check and the pending penalties (environment.py
\* 608-613, 1068-1081).  The teams of the cached state are the seats 0, 2
\* and the seats 1, 3; pn_home[p] says whether a piece with playerId p is in
\* the home stretch.  Of a step only the pending penalty it takes up and the
\* check at its end are kept: reward is the part of the step's reward that
\* comes from pending_penalties.
\* ======================================================================
\* team_players = [pl.get('position') for pl in team]
TeamPlayers(idx) == {p \in Seats : p % 2 = idx}

\* home_present: a piece in the home stretch whose playerId is in the team
HomePresent(home, idx) == \E p \in TeamPlayers(idx) : home[p]

\* a check that looks at the pieces of each seat alone
SeatsWithoutHome(home) == {p \in Seats : ~home[p]}

\* 1071-1080: the seats whose pending penalty the check lowers
PenalisedSeats(home) ==
    UNION {TeamPlayers(idx) : idx \in {i \in {0, 1} : ~HomePresent(home, i)}}

\* 1078-1080: self.pending_penalties[pid] -= 60.0
QueuePenalties(pending, home) ==
    [p \in Seats |->
       IF p \in PenalisedSeats(home) THEN pending[p] - TeamPenalty ELSE pending[p]]

\* step is called for the seat the engine names; step_count is the
\* counter of train_episode (trainer.py 371)
PnCall ==
    /\ pc \in {"off", "returned"}
    /\ pn_steps < MaxPenaltySteps
    /\ pn_steps' = pn_steps + 1
    /\ pc' = "call"
    /\ player_id' \in Seats
    /\ step_count' = pn_turn
    /\ UNCHANGED <<envVars, action, tried_actions, invalid_attempts, response,
                   discards, reward, decay, done, gs0, attempted, attempts,
                   reattempted, candidates, failures, all_errors, tallied0,
                   pn_home, pn_owed, pn_turn, next_penalty_check>>

\* 568-622: the pending penalty of the seat is taken into the reward and
\* cleared; by the rule the seat then owes nothing
PnBegin ==
    /\ StepBegin
    /\ pn_owed' = [pn_owed EXCEPT ![player_id] = 0]
    /\ UNCHANGED <<pn_home, pn_turn, pn_steps, next_penalty_check>>

\* 713: the retry chain sent no command, response is unbound and step raises
PnRaises ==
    /\ pc = "loop"
    /\ pc' = "raised"
    /\ UNCHANGED <<envVars, player_id, step_count, action, tried_actions,
                   invalid_attempts, response, discards, reward, decay, done,
                   gs0, attempted, attempts, reattempted, candidates, failures,
                   all_errors, tallied0, pnVars, next_penalty_check>>

\* 736-1081 and the return: a response with a gameState shows the pieces
\* anew and, when the check is due, every team without a piece in the home
\* stretch gets its penalty queued; train_episode then counts the turn
PnReturns ==
    /\ pc = "loop"
    /\ pc' = "returned"
    /\ pn_turn' = pn_turn + 1
    /\ \E has \in BOOLEAN :
          IF has
          THEN /\ pn_home' \in [Seats -> BOOLEAN]
               /\ IF step_count >= next_penalty_check
                  THEN /\ pending_penalties' =
                            QueuePenalties(pending_penalties, pn_home')
                       /\ next_penalty_check' =
                            next_penalty_check + PENALTY_CHECK_INTERVAL
                       /\ pn_owed' =
                            [p \in Seats |->
                               IF \A q \in Seats : q % 2 = p % 2 => ~pn_home'[q]
                               THEN pn_owed[p] - TeamPenalty ELSE pn_owed[p]]
                  ELSE UNCHANGED <<pending_penalties, next_penalty_check, pn_owed>>
          ELSE UNCHANGED <<pn_home, pending_penalties, next_penalty_check, pn_owed>>
    /\ UNCHANGED <<game_state, reward_event_counts, reward_event_totals,
                   reward_bonus_totals, completion_delay_turns, last_step_info,
                   player_id, step_count, action, tried_actions,
                   invalid_attempts, response, discards, reward, decay, done,
                   gs0, attempted, attempts, reattempted, candidates, failures,
                   all_errors, tallied0, pn_steps>>

\* what the steps here leave alone
PnFrame ==
    UNCHANGED <<gvaVars, sendVars, epVars, curVars, botVars, ckVars, closeVars,
                stVars, acVars, ehVars, adVars, trVars,
                cbVars, tnVars>>

PnKept ==
    UNCHANGED <<completion_delay_growth, no_progress_steps, move_history,
                winningTeam, rs_pc, start_polls, start_result, ready_read,
                start_dropped, ready_printed, proc_gen, timeout_gen,
                rs_timeout_gen, rs_cmd_gen, rs_node_at_call, rs_started,
                rs_before, rs_return, rs_success, rs_reply, resets>>

\* an episode two turns before its first check, nothing pending, or two
\* turns before its second, seat 3 not having moved since the first
InitPenalty ==
    /\ TnIdle
    /\ CbIdle
    /\ TrIdle
    /\ AdIdle
    /\ EhIdle
    /\ game_state = ResetState
    /\ reward_event_counts = ZeroEvents
    /\ reward_event_totals = ZeroEvents
    /\ reward_bonus_totals = ZeroBonus
    /\ completion_delay_turns = <<0, 0>>
    /\ last_step_info = ZeroBonus
    /\ StepIdle
    /\ GvaIdle
    /\ SendIdle
    /\ EpIdle
    /\ CurIdle
    /\ BotIdle
    /\ CkIdle
    /\ CloseIdle
    /\ StIdle
    /\ AcIdle
    /\ RsCallOff
    /\ move_history = <<>>
    /\ winningTeam = "none"
    /\ completion_delay_growth = FreshGrowth
    /\ no_progress_steps = FreshNoProgress
    /\ pn_steps = 0
    /\ pn_home \in [Seats -> BOOLEAN]
    /\ \/ /\ pn_turn = PENALTY_CHECK_INTERVAL - 2
          /\ next_penalty_check = PENALTY_CHECK_INTERVAL
          /\ pending_penalties = [p \in Seats |-> 0]
       \/ /\ pn_turn = 2 * PENALTY_CHECK_INTERVAL - 2
          /\ next_penalty_check = 2 * PENALTY_CHECK_INTERVAL
          /\ pending_penalties = [p \in Seats |-> IF p = 3 THEN -TeamPenalty ELSE 0]
    /\ pn_owed = pending_penalties

NextPenalty ==
    \/ PnCall /\ PnKept /\ PnFrame
    \/ PnBegin /\ PnKept /\ PnFrame
    \/ PnRaises /\ PnKept /\ PnFrame
    \/ PnReturns /\ PnKept /\ PnFrame

SpecPenalty == InitPenalty /\ [][NextPenalty]_vars

\* C29: what is pending for a seat is what the seat owes by the rule: 60.0
\* for every check since its last step at which its team had no piece in
\* the home stretch.  The step of a seat begins by taking exactly the amount
\* the seat owes into its reward, clearing it and leaving the other seats'
\* amounts alone; and penalties are queued only at the end of a step whose
\* step_count has reached next_penalty_check, which then moves on by 60.
C29_PendingPenaltyAppliedOnce ==
    /\ [](pending_penalties = pn_owed)
    /\ [][(pc = "call" /\ pc' = "loop") =>
            /\ reward' = pn_owed[player_id]
            /\ pending_penalties'[player_id] = 0
            /\ \A q \in Seats \ {player_id} :
                  pending_penalties'[q] = pending_penalties[q]]_vars
    /\ [][(pc # "call" /\ pending_penalties' # pending_penalties) =>
            /\ pc = "loop" /\ pc' = "returned"
            /\ step_count >= next_penalty_check
            /\ next_penalty_check' = next_penalty_check + PENALTY_CHECK_INTERVAL]_vars

\* the check at turn 60 found team 1 without a piece in the home stretch;
\* seat 1 has moved since and its step began with the penalty, seat 3 has
\* not, and team 0 owes nothing
C29_Witness ==
    /\ pc = "returned"
    /\ pn_turn = PENALTY_CHECK_INTERVAL + 2
    /\ player_id = 1
    /\ reward = -TeamPenalty
    /\ pending_penalties = [p \in Seats |-> IF p = 3 THEN -TeamPenalty ELSE 0]
    /\ reward_event_counts["no_home_penalty"] = 1
    /\ reward_event_totals["no_home_penalty"] = -TeamPenalty

\* ---- bounds
NumPieceIds == 6         \* pieces on the board, piece i owned by seat i % 4

\* ======================================================================
\* the enemy-home-entry penalty of a step (environment.py 726-734, 764,
\* 896-900, 1010-1014).  eh_before[i] and eh_after[i] say whether piece i is
\* in the home stretch in the cached state and in the state of the response.
\* ======================================================================
PieceIds == 0..(NumPieceIds - 1)

\* p.get('playerId')
PieceOwner(i) == i % 4

\* 726-734: prev_enemy_home counts every piece in the home stretch whose
\* playerId is not player_id
PrevEnemyHome(before, player) ==
    Cardinality({i \in PieceIds : before[i] /\ PieceOwner(i) # player})

\* 764, 896-900: enemy_home, counted the same way over the new state
EnemyHome(after, player) ==
    Cardinality({i \in PieceIds : after[i] /\ PieceOwner(i) # player})

\* 1010-1011: penalty = -5.0 * enemy_home when the count has grown
EnemyHomePenalty(prev_enemy_home, enemy_home) ==
    IF enemy_home > prev_enemy_home THEN -(EnemyHomeUnit * enemy_home) ELSE 0

\* 1013: reward_event_counts['enemy_home_entry'] += enemy_home - prev_enemy_home
EnemyHomeEvents(prev_enemy_home, enemy_home) ==
    IF enemy_home > prev_enemy_home THEN enemy_home - prev_enemy_home ELSE 0

\* what the step leaves alone here
EhFrame ==
    UNCHANGED <<envVars, stepVars, gvaVars, sendVars, epVars, curVars, botVars,
                ckVars, closeVars, rsVars, stVars, acVars, pnVars,
                adVars, trVars, cbVars, tnVars>>

\* one step of seat `player` whose response carries a gameState
EhStep ==
    /\ eh_pc = "call"
    /\ eh_pc' = "done"
    /\ \E player \in Seats, after \in [PieceIds -> BOOLEAN] :
          /\ eh_player' = player
          /\ eh_after' = after
          /\ eh_penalty' = EnemyHomePenalty(PrevEnemyHome(eh_before, player),
                                            EnemyHome(after, player))
          /\ eh_events' = EnemyHomeEvents(PrevEnemyHome(eh_before, player),
                                          EnemyHome(after, player))
    /\ UNCHANGED eh_before
    /\ EhFrame

InitEnemyHome ==
    /\ TnIdle
    /\ CbIdle
    /\ TrIdle
    /\ AdIdle
    /\ game_state = NoneState
    /\ EnvFresh
    /\ StepIdle
    /\ GvaIdle
    /\ SendIdle
    /\ EpIdle
    /\ CurIdle
    /\ BotIdle
    /\ CkIdle
    /\ CloseIdle
    /\ RsIdle
    /\ StIdle
    /\ AcIdle
    /\ PnIdle
    /\ eh_pc = "call"
    /\ eh_player = 0
    /\ eh_before \in [PieceIds -> BOOLEAN]
    /\ eh_after = eh_before
    /\ eh_penalty = 0
    /\ eh_events = 0

NextEnemyHome ==
    \/ EhStep

SpecEnemyHome == InitEnemyHome /\ [][NextEnemyHome]_vars

\* the pieces of the other team that were not in the home stretch before
\* the step and are in it after
NewlyEnteredOpponents ==
    {i \in PieceIds : /\ ~eh_before[i]
                      /\ eh_after[i]
                      /\ PieceOwner(i) % 2 # eh_player % 2}

\* C30: the enemy-home-entry penalty of a step is the fixed amount 5.0 for
\* every piece of the opposing team that entered its home stretch during
\* the step; pieces already there and pieces of the partner add nothing.
C30_PenaltyPerEnteringOpponentPiece ==
    eh_pc = "done" =>
       eh_penalty = -(EnemyHomeUnit * Cardinality(NewlyEnteredOpponents))

\* ---- bounds
NumEpisodes == 4         \* TRAINING_CONFIG['num_episodes']
MaxUpdates == 4          \* policy updates of the Agent followed

\* ======================================================================
\* adaptive control after a policy update (trainer.py 243-259, 413-423).
\* Products with 0.9, 1.1 and 0.5 are rounded down to the unit.
\* ======================================================================
\* the KL values replay reports: well below, at, above and far above target
KlValues == {KlTarget \div 4, KlTarget, 2 * KlTarget, 4 * KlTarget}

Max(a, b) == IF a > b THEN a ELSE b

\* 246, 250: kl > target * 1.5, kl < target * 0.5
KlHigh(k) == 10 * k > 15 * KlTarget
KlLow(k) == 10 * k < 5 * KlTarget

\* 246-253: clip_eps after _adjust_ppo_params
AdjustedClip(clip, k) ==
    IF KlHigh(k) THEN Max((clip * 9) \div 10, ClipMin)
    ELSE IF KlLow(k) THEN Min((clip * 11) \div 10, ClipMax)
    ELSE clip

\* 248-253: group['lr'] after _adjust_ppo_params
AdjustedLr(rate, k) ==
    IF KlHigh(k) THEN rate \div 2
    ELSE IF KlLow(k) THEN (rate * 11) \div 10
    ELSE rate

\* 257-259: the lr _update_lr_schedule assigns at progress g / num_episodes
ScheduledLr(g) ==
    Max(LrStart - (g * (LrStart - LrFinal)) \div NumEpisodes, LrFinal)

\* 422-423: the lr the optimizer holds when the branch of train_episode is
\* left: _update_lr_schedule assigns it after _adjust_ppo_params
LrAfterUpdate(rate, k, g) ==
    LET adjusted == AdjustedLr(rate, k)     \* 421, overwritten at 423
    IN  ScheduledLr(g)

\* 413-423: replay returns a result and the parameters are adjusted
AdUpdate ==
    /\ ad_pc = "step"
    /\ ad_updates < MaxUpdates
    /\ ad_updates' = ad_updates + 1
    /\ \E k \in KlValues :
          /\ kl' = k
          /\ clip_eps' = AdjustedClip(clip_eps, k)
          /\ lr' = LrAfterUpdate(lr, k, ad_games)
    /\ UNCHANGED <<ad_pc, ad_games>>

\* 413-415: replay returns None, nothing is adjusted
AdNoUpdate ==
    /\ ad_pc = "step"
    /\ kl # -1
    /\ kl' = -1
    /\ UNCHANGED <<ad_pc, clip_eps, lr, ad_games, ad_updates>>

\* 495: an episode ends, training_stats['games_played'] += 1
AdEpisodeEnd ==
    /\ ad_pc = "step"
    /\ ad_games < NumEpisodes
    /\ ad_games' = ad_games + 1
    /\ kl' = -1
    /\ UNCHANGED <<ad_pc, clip_eps, lr, ad_updates>>

AdFrame ==
    UNCHANGED <<envVars, stepVars, gvaVars, sendVars, epVars, curVars, botVars,
                ckVars, closeVars, rsVars, stVars, acVars, pnVars, ehVars,
                trVars, cbVars, tnVars>>

\* bot.py 74, 77: a fresh Agent
InitAdapt ==
    /\ TnIdle
    /\ CbIdle
    /\ TrIdle
    /\ game_state = NoneState
    /\ EnvFresh
    /\ StepIdle
    /\ GvaIdle
    /\ SendIdle
    /\ EpIdle
    /\ CurIdle
    /\ BotIdle
    /\ CkIdle
    /\ CloseIdle
    /\ RsIdle
    /\ StIdle
    /\ AcIdle
    /\ PnIdle
    /\ EhIdle
    /\ ad_pc = "step"
    /\ clip_eps = PpoClip
    /\ lr = LrStart
    /\ kl = -1
    /\ ad_games = 0
    /\ ad_updates = 0

NextAdapt ==
    \/ AdUpdate /\ AdFrame
    \/ AdNoUpdate /\ AdFrame
    \/ AdEpisodeEnd /\ AdFrame

SpecAdapt == InitAdapt /\ [][NextAdapt]_vars

\* an update has just been made
Updated == ad_updates' = ad_updates + 1

\* C31: after an update with KL above 1.5 times the target clip_eps is not
\* larger than before and the learning rate is half of what it was; after
\* one with KL below 0.5 times the target clip_eps is not smaller and the
\* learning rate is larger than before; clip_eps always lies in
\* [0.05, 0.3] and the learning rate is never below lr_final.
C31_AdaptiveControl ==
    /\ [](ad_pc = "step" => /\ clip_eps >= ClipMin
                            /\ clip_eps <= ClipMax
                            /\ lr >= LrFinal)
    /\ [][(Updated /\ KlHigh(kl')) =>
            /\ clip_eps' <= clip_eps
            /\ clip_eps' = Max((clip_eps * 9) \div 10, ClipMin)
            /\ lr' = lr \div 2]_vars
    /\ [][(Updated /\ KlLow(kl')) =>
            /\ clip_eps' >= clip_eps
            /\ lr' > lr]_vars

\* ======================================================================
\* One lane alone (train with num_envs = 1): the steps of train_episode and
\* of act, remember and replay above, taken by lane 1 only.
\* ======================================================================
NextOneLane ==
    \/ \E l \in {1} : AgShuffle(l) /\ AgFrame
    \/ \E l \in {1} : AgPick(l) /\ AgFrame
    \/ \E l \in {1} : AgEnd(l) /\ AgFrame
    \/ \E l \in {1} : AgActExitFocus(l) /\ AgFrame
    \/ \E l \in {1} : AgActExitOther(l) /\ AgFrame
    \/ \E l \in {1} : AgRememberExit(l) /\ AgFrame
    \/ \E l \in {1} : AgTrackReplay(l) /\ AgFrame
    \/ \E l \in {1} : AgTrackShort(l) /\ AgFrame
    \/ \E l \in {1} : AgTrackNext(l) /\ AgFrame
    \/ \E l \in {1} : AgReplayClear(l) /\ AgFrame
    \/ \E l \in {1} : AgReplayExit(l) /\ AgFrame

SpecOneLane == InitAgents /\ [][NextOneLane]_vars

\* replay is called with less than a batch in the memory and returns None
ReplayReturnsNone ==
    /\ ag_pc[1] = "track" /\ ag_pc'[1] = "pick"
    /\ ReplayDue(1)

\* replay returns from its update
ReplayReturnsResult == ag_pc[1] = "replay_update" /\ ag_pc'[1] = "pick"

\* C32: a replay called with fewer than batch_size transitions changes
\* neither the memory nor what has been trained on; any other replay reads
\* at least a batch, trains once on every transition that was in the memory
\* at its call and on nothing else, and the memory is empty at its return;
\* no transition is trained on twice.
C32_ReplaySinglePass ==
    /\ [](\A t \in TransitionIds : consumed[t] <= 1)
    /\ [][ReplayReturnsNone =>
            /\ Len(memory[ag_bot[1]]) < BatchSize
            /\ memory' = memory
            /\ consumed' = consumed]_vars
    /\ [][(ag_pc[1] = "track" /\ ag_pc'[1] = "replay_read") =>
            /\ Len(memory[ag_bot[1]]) >= BatchSize
            /\ ag_batch'[1] = memory[ag_bot[1]]]_vars
    /\ [][ReplayReturnsResult =>
            /\ memory[ag_bot[1]] = <<>>
            /\ memory' = memory
            /\ \A t \in TransitionIds :
                  consumed'[t] = consumed[t] +
                                 (IF t \in Range(ag_batch[1]) THEN 1 ELSE 0)]_vars

\* the focus seat has stepped twice: the first replay found the memory
\* empty, the second trained on the one transition stored since
C32_Witness ==
    /\ ag_pc[1] = "pick"
    /\ ag_steps[1] = 2
    /\ consumed[<<1, 2>>] = 1
    /\ stored = {<<1, 2>>}
    /\ memory = [b \in BotIds |-> <<>>]

\* ---- bounds
MaxActCalls == 4         \* steps of the episode followed

\* ======================================================================
\* What remember is given (trainer.py 352-404, bot.py 100-132).  One lane,
\* the seating fixed for the episode, so the Agent of a seat is named by the
\* seat.
\* ======================================================================
\* 118-132: the tuple remember appends: state and action are its arguments,
\* the log-probability and the value are self.last_log_prob, self.last_value
StoredTuple(state_of, last_act, step) ==
    [state |-> state_of, action |-> state_of, log_prob |-> last_act,
     value |-> last_act, step |-> step]

\* 352-369: current_player, get_state, and current_bot.act(state, ...)
TrAct ==
    /\ tr_pc = "pick"
    /\ tr_step < MaxActCalls
    /\ tr_step' = tr_step + 1
    /\ \E p \in Seats :
          /\ tr_player' = p
          /\ tr_last_act' = [tr_last_act EXCEPT ![p] = tr_step + 1]
    /\ tr_pc' = "acted"
    /\ UNCHANGED <<tr_focus, tr_states, tr_stored, tr_focus_steps>>

\* 371-404: env.step, then remember(states[current_player],
\* actions[current_player], ...) for the focus seat when states[] holds
\* something, then states[current_player] = state, actions[...] = action
TrStep ==
    /\ tr_pc = "acted"
    /\ tr_pc' = "pick"
    /\ tr_stored' =
          IF tr_player = tr_focus /\ tr_states[tr_player] # 0
          THEN Append(tr_stored, StoredTuple(tr_states[tr_player],
                                            tr_last_act[tr_player], tr_step))
          ELSE tr_stored
    /\ tr_states' = [tr_states EXCEPT ![tr_player] = tr_step]
    /\ tr_focus_steps' = tr_focus_steps + (IF tr_player = tr_focus THEN 1 ELSE 0)
    /\ UNCHANGED <<tr_focus, tr_step, tr_player, tr_last_act>>

TrFrame ==
    UNCHANGED <<envVars, stepVars, gvaVars, sendVars, epVars, curVars, botVars,
                ckVars, closeVars, rsVars, stVars, acVars, pnVars, ehVars,
                adVars, cbVars, tnVars>>

\* 344-350: states = [None] * 4 at the start of the episode
InitTransitions ==
    /\ TnIdle
    /\ CbIdle
    /\ game_state = NoneState
    /\ EnvFresh
    /\ StepIdle
    /\ GvaIdle
    /\ SendIdle
    /\ EpIdle
    /\ CurIdle
    /\ BotIdle
    /\ CkIdle
    /\ CloseIdle
    /\ RsIdle
    /\ StIdle
    /\ AcIdle
    /\ PnIdle
    /\ EhIdle
    /\ AdIdle
    /\ tr_pc = "pick"
    /\ tr_focus \in Seats
    /\ tr_step = 0
    /\ tr_player = 0
    /\ tr_states = [p \in Seats |-> 0]
    /\ tr_last_act = [p \in Seats |-> 0]
    /\ tr_stored = <<>>
    /\ tr_focus_steps = 0

NextTransitions ==
    \/ TrAct /\ TrFrame
    \/ TrStep /\ TrFrame

SpecTransitions == InitTransitions /\ [][NextTransitions]_vars

\* C33: the state, the action, the log-probability and the value of every
\* stored Transition come from one act call, and there are as many stored
\* Transitions as steps of the focus seat.
C33_TransitionFromOneActCall ==
    /\ \A i \in 1..Len(tr_stored) :
          /\ tr_stored[i].state = tr_stored[i].action
          /\ tr_stored[i].log_prob = tr_stored[i].state
          /\ tr_stored[i].value = tr_stored[i].state
    /\ tr_pc = "pick" => Len(tr_stored) = tr_focus_steps

\* ======================================================================
\* send_command and late replies (environment.py 352-390), on SpecSend.
\* ======================================================================
\* C34: the JSON object send_command returns is the engine's reply to the
\* command this call has written, never the reply to an earlier command.
C34_ReplyAnswersItsCommand ==
    (send_pc = "returned" /\ send_result.error = "") => send_result.re = ncalls

\* ======================================================================
\* The retry chain of step against an engine that names discards
\* (environment.py 632-660, 498-525).  Besides the replies of Spec the
\* engine may answer getValidActions with one id of the band 70..79, the
\* lowest one step has not tried, which is_action_valid then rejects:
\* get_valid_actions hands it on as discard_actions[0] (518-521).
\* ======================================================================
\* the lowest id of the band that is not in tried, or the last id of the band
NextOfBand(tried) ==
    LET untried == BandFrom(DiscardLo, tried)
    IN  IF untried = <<>> THEN DiscardHi ELSE untried[1]

\* 633-660: is_action_valid(action) is False and get_valid_actions returns
\* the discard the engine has named
RejectedThenDiscard ==
    /\ pc = "loop"
    /\ LET tried == tried_actions \cup {action}
           list == GetValidActions(game_state, player_id,
                                   [err |-> FALSE,
                                    actions |-> <<NextOfBand(tried)>>],
                                   <<FALSE>>)
       IN  /\ invalid_attempts' = invalid_attempts + 1
           /\ tried_actions' = tried
           /\ Attempt(action)
           /\ failures' = failures + 1
           /\ all_errors' = FALSE
           /\ Retry(tried, list, "discardA")
    /\ UNCHANGED <<envVars, player_id, step_count, response,
                   reward, decay, done, gs0, tallied0>>

NextBand ==
    \/ StepBegin /\ UNCHANGED <<gvaVars, sendVars, epVars, managerVars>>
    \/ ValidationRejected /\ UNCHANGED <<gvaVars, sendVars, epVars, managerVars>>
    \/ RejectedThenDiscard /\ UNCHANGED <<gvaVars, sendVars, epVars, managerVars>>
    \/ MoveSucceeded /\ UNCHANGED <<gvaVars, sendVars, epVars, managerVars>>
    \/ MoveFailed /\ UNCHANGED <<gvaVars, sendVars, epVars, managerVars>>
    \/ DiscardAfterRejection /\ UNCHANGED <<gvaVars, sendVars, epVars, managerVars>>
    \/ DiscardAfterFailure /\ UNCHANGED <<gvaVars, sendVars, epVars, managerVars>>
    \/ StepFinish /\ UNCHANGED <<gvaVars, sendVars, epVars, managerVars>>

SpecBand == Init /\ [][NextBand]_vars

\* C35: when the retry chain of step is left, a move command has been sent
\* and response holds the engine's answer to it.
C35_ChainSendsAMove ==
    pc = "after" => response.kind # "unset"

\* ---- bounds
SeatPieces == 2          \* pieces of every seat in the episode followed

\* ======================================================================
\* COMPLETION_BONUS (environment.py 577, 1016-1029, 1103-1124).  A step of a
\* seat completes at most one piece, of the seat or of its partner; the
\* engine reports gameEnded when both seats of a team have completed all
\* their pieces.
\* ======================================================================
\* the team of seat p has completed all its pieces
TeamComplete(completed, p) ==
    \A q \in Seats : q % 2 = p % 2 => completed[q] = SeatPieces

\* 1017-1026: the seat's last piece was completed by this step
CompletedNow(before, after) ==
    /\ SeatPieces # 0
    /\ after = SeatPieces
    /\ after > before

\* 1117-1121: at the end of the game all pieces of the seat are completed
CompleteAtEnd(is_done, after) ==
    /\ is_done
    /\ SeatPieces # 0
    /\ after = SeatPieces

\* 1027 and 1122: how often the step runs reward += COMPLETION_BONUS
BonusCredits(before, after, is_done) ==
    (IF CompletedNow(before, after) THEN 1 ELSE 0)
    + (IF CompleteAtEnd(is_done, after) THEN 1 ELSE 0)

\* one step of seat p whose response carries the gameState
CbStep ==
    /\ cb_pc = "play"
    /\ \E p \in Seats, after \in [Seats -> 0..SeatPieces] :
          /\ \/ after = cb_completed
             \/ \E q \in {p, (p + 2) % 4} :
                   /\ cb_completed[q] < SeatPieces
                   /\ after = [cb_completed EXCEPT ![q] = @ + 1]
          /\ LET is_done == TeamComplete(after, p)
                 n == BonusCredits(cb_completed[p], after[p], is_done)
             IN  /\ cb_player' = p
                 /\ cb_completed' = after
                 /\ cb_step_credits' = n
                 /\ cb_reward' = n * COMPLETION_BONUS
                 /\ cb_credits' = [cb_credits EXCEPT ![p] = @ + n]
                 /\ cb_pc' = IF is_done THEN "ended" ELSE "play"

CbFrame ==
    UNCHANGED <<envVars, stepVars, gvaVars, sendVars, epVars, curVars, botVars,
                ckVars, closeVars, rsVars, stVars, acVars, pnVars, ehVars,
                adVars, trVars, tnVars>>

\* a new game: no piece completed
InitCompletion ==
    /\ TnIdle
    /\ game_state = NoneState
    /\ EnvFresh
    /\ StepIdle
    /\ GvaIdle
    /\ SendIdle
    /\ EpIdle
    /\ CurIdle
    /\ BotIdle
    /\ CkIdle
    /\ CloseIdle
    /\ RsIdle
    /\ StIdle
    /\ AcIdle
    /\ PnIdle
    /\ EhIdle
    /\ AdIdle
    /\ TrIdle
    /\ cb_pc = "play"
    /\ cb_player = 0
    /\ cb_completed = [p \in Seats |-> 0]
    /\ cb_credits = [p \in Seats |-> 0]
    /\ cb_step_credits = 0
    /\ cb_reward = 0

NextCompletion ==
    \/ CbStep /\ CbFrame

SpecCompletion == InitCompletion /\ [][NextCompletion]_vars

\* C36: within one episode COMPLETION_BONUS is credited to a seat at most
\* once, and a step adds it at most once, also the step that ends the game.
C36_CompletionBonusOnce ==
    /\ \A p \in Seats : cb_credits[p] <= 1
    /\ cb_step_credits <= 1
    /\ cb_reward <= COMPLETION_BONUS

\* ======================================================================
\* The seating during an episode, on SpecAgents (trainer.py 185-192,
\* 324-435, 627-632).
\* ======================================================================
\* lane l is between its shuffle and the end of its step loop
InEpisode(l) == ag_pc[l] \notin {"start", "ended"}

\* C37: while a lane is between its shuffle and the end of its step loop,
\* the Agent at every seat and train_focus_idx do not change, and the Agent
\* the lane is acting or storing for is the one at the seat of its
\* current_player.
C37_SeatingStableInEpisode ==
    /\ [][(\E l \in Lanes : InEpisode(l)) =>
            (bots' = bots /\ train_focus_idx' = train_focus_idx)]_vars
    /\ [](\A l \in Lanes :
            ag_pc[l] \in {"in_act", "in_remember", "track"} =>
               ag_bot[l] = bots[ag_player[l]])

\* ======================================================================
\* The end-of-episode update of concurrent lanes, on SpecCurriculum
\* (trainer.py 448-503, 525-532, 627-632).
\* ======================================================================
\* the advancement condition on the manager's counters (484-488), the
\* window apart
StageCrossed ==
    /\ stage_games >= StageGamesNeeded
    /\ pieces_per_player < MaxPieces

\* C38: the update of every episode acts as one atomic block: every episode
\* that finishes adds one to games_played, stage_games changes by one or is
\* reset, and pieces_per_player rises by one only while the advancement
\* condition holds on the manager's counters, so one crossing raises it once.
C38_EpisodeUpdateAtomic ==
    /\ [][games_played' # games_played =>
            games_played' = games_played + 1]_vars
    /\ [][stage_games' # stage_games =>
            (stage_games' = stage_games + 1 \/ stage_games' = 0)]_vars
    /\ [][pieces_per_player' # pieces_per_player =>
            /\ StageCrossed
            /\ pieces_per_player' = pieces_per_player + 1]_vars

\* ======================================================================
\* Loading a snapshot into an opponent, on SpecCheckpoint (trainer.py
\* 327-335: load_model(self.latest_snapshot, reset_stats=False) on a file
\* save_snapshot wrote with save_model, 890-905).
\* ======================================================================
\* C39: loading a snapshot leaves wins, games_played and total_reward of the
\* receiving Agent as they were.
C39_SnapshotLoadKeepsStats ==
    (ck_pc = "loaded" /\ ck_saved /\ ~ck_reset /\ ck_raised = "none") =>
        /\ ck_agent.wins = ck_before.wins
        /\ ck_agent.games_played = ck_before.games_played
        /\ ck_agent.total_reward = ck_before.total_reward

\* ======================================================================
\* TrainingManager.train and the engine processes (trainer.py 578-660,
\* environment.py start_node_game 275-350 and close 1156-1166).
\* ======================================================================
MaxTrainEnvs == 3
MaxTrainEpisodes == 2

TrainEnvs == 1..MaxTrainEnvs

\* train(num_envs): self.env (num_envs <= 1) or self.envs, none started yet
TnCall ==
    /\ tn_pc = "call"
    /\ \E n \in TrainEnvs :
        /\ tn_num_envs' = n
        /\ tn_idx' = 1
        /\ tn_pc' = "starting"
    /\ UNCHANGED <<tn_node, tn_alive, tn_episode, tn_signals>>

\* position after start_node_game of environment tn_idx returned True
AfterStart ==
    IF tn_idx = tn_num_envs
        THEN tn_pc' = "episodes" /\ tn_idx' = tn_idx
        ELSE tn_pc' = "starting" /\ tn_idx' = tn_idx + 1

\* start_node_game: Popen succeeds and the ready line arrives, returns True
TnStartReady ==
    /\ tn_pc = "starting"
    /\ tn_node' = [tn_node EXCEPT ![tn_idx] = "Popen"]
    /\ tn_alive' = tn_alive \cup {tn_idx}
    /\ AfterStart
    /\ UNCHANGED <<tn_num_envs, tn_episode, tn_signals>>

\* start_node_game: Popen succeeds, fifty polls without a ready line, returns
\* False with the process still running; train returns at once
TnStartNoReady ==
    /\ tn_pc = "starting"
    /\ tn_node' = [tn_node EXCEPT ![tn_idx] = "Popen"]
    /\ tn_alive' = tn_alive \cup {tn_idx}
    /\ tn_pc' = "returned"
    /\ UNCHANGED <<tn_num_envs, tn_idx, tn_episode, tn_signals>>

\* start_node_game: Popen succeeds, poll() finds the process terminated,
\* returns False; train returns at once
TnStartDied ==
    /\ tn_pc = "starting"
    /\ tn_node' = [tn_node EXCEPT ![tn_idx] = "Popen"]
    /\ tn_pc' = "returned"
    /\ UNCHANGED <<tn_num_envs, tn_idx, tn_alive, tn_episode, tn_signals>>

\* start_node_game: Popen raises, node_process stays None, returns False
TnStartRaises ==
    /\ tn_pc = "starting"
    /\ tn_pc' = "returned"
    /\ UNCHANGED <<tn_num_envs, tn_idx, tn_node, tn_alive, tn_episode, tn_signals>>

\* one iteration of the episode loop inside the try block
TnEpisode ==
    /\ tn_pc = "episodes"
    /\ tn_episode < MaxTrainEpisodes
    /\ tn_episode' = tn_episode + 1
    /\ UNCHANGED <<tn_pc, tn_num_envs, tn_idx, tn_node, tn_alive, tn_signals>>

\* an engine process exits on its own while episodes run
TnEngineExits ==
    /\ tn_pc = "episodes"
    /\ \E e \in tn_alive : tn_alive' = tn_alive \ {e}
    /\ UNCHANGED <<tn_pc, tn_num_envs, tn_idx, tn_node, tn_episode, tn_signals>>

\* an exception leaves the try block: control goes to the finally clause
TnEpisodeRaises ==
    /\ tn_pc = "episodes"
    /\ tn_episode < MaxTrainEpisodes
    /\ tn_pc' = "finally"
    /\ tn_idx' = 1
    /\ UNCHANGED <<tn_num_envs, tn_node, tn_alive, tn_episode, tn_signals>>

\* the loop ends normally: control goes to the finally clause
TnComplete ==
    /\ tn_pc = "episodes"
    /\ tn_episode = MaxTrainEpisodes
    /\ tn_pc' = "finally"
    /\ tn_idx' = 1
    /\ UNCHANGED <<tn_num_envs, tn_node, tn_alive, tn_episode, tn_signals>>

\* signals close sends: terminate, then kill when wait(timeout=5) expired
CloseSignals(expired) ==
    IF expired THEN <<"terminate", "kill">> ELSE <<"terminate">>

\* finally: env.close() of environment tn_idx
TnClose ==
    /\ tn_pc = "finally"
    /\ \E expired \in BOOLEAN :
        /\ expired => tn_idx \in tn_alive
        /\ IF tn_node[tn_idx] # "None"
              THEN /\ tn_signals' = [tn_signals EXCEPT ![tn_idx] = CloseSignals(expired)]
                   /\ tn_node' = [tn_node EXCEPT ![tn_idx] = "None"]
                   /\ tn_alive' = tn_alive \ {tn_idx}
              ELSE /\ ~expired
                   /\ UNCHANGED <<tn_node, tn_alive, tn_signals>>
    /\ IF tn_idx = tn_num_envs
          THEN tn_pc' = "returned" /\ tn_idx' = tn_idx
          ELSE tn_pc' = "finally" /\ tn_idx' = tn_idx + 1
    /\ UNCHANGED <<tn_num_envs, tn_episode>>

TnFrame ==
    UNCHANGED <<envVars, stepVars, gvaVars, sendVars, epVars, curVars, botVars,
                ckVars, closeVars, rsVars, stVars, acVars, pnVars, ehVars,
                adVars, trVars, cbVars>>

InitTrain ==
    /\ game_state = NoneState
    /\ EnvFresh
    /\ StepIdle
    /\ GvaIdle
    /\ SendIdle
    /\ EpIdle
    /\ CurIdle
    /\ BotIdle
    /\ CkIdle
    /\ CloseIdle
    /\ RsIdle
    /\ StIdle
    /\ AcIdle
    /\ PnIdle
    /\ EhIdle
    /\ AdIdle
    /\ TrIdle
    /\ CbIdle
    /\ tn_pc = "call"
    /\ tn_num_envs = 0
    /\ tn_idx = 0
    /\ tn_node = [e \in TrainEnvs |-> "None"]
    /\ tn_alive = {}
    /\ tn_episode = 0
    /\ tn_signals = [e \in TrainEnvs |-> <<>>]

NextTrain ==
    \/ TnCall /\ TnFrame
    \/ TnStartReady /\ TnFrame
    \/ TnStartNoReady /\ TnFrame
    \/ TnStartDied /\ TnFrame
    \/ TnStartRaises /\ TnFrame
    \/ TnEpisode /\ TnFrame
    \/ TnEngineExits /\ TnFrame
    \/ TnEpisodeRaises /\ TnFrame
    \/ TnComplete /\ TnFrame
    \/ TnClose /\ TnFrame

SpecTrain == InitTrain /\ [][NextTrain]_vars

\* C40: when train has returned, node_process of every environment is None
\* and no process it spawned is still running.
C40_AllEnginesClosedOnReturn ==
    tn_pc = "returned" =>
        /\ \A e \in TrainEnvs : tn_node[e] = "None"
        /\ tn_alive = {}

====
